---- MODULE Spec2Model ----
(***************************************************************************)
(* rurl: the persistence store (src/src/persistence.rs) and the            *)
(* focus/mode router (src/src/app.rs) with its regions and modal           *)
(* (src/src/components).                                                   *)
(*                                                                         *)
(* Conventions.  A Rust String is a sequence of one-character strings.     *)
(* Option<T> is a sequence of length at most one: <<>> is None and <<x>>   *)
(* is Some(x).  A project id stands for a TEXT id; ids are compared with   *)
(* < the way SQLite's BINARY collation compares the texts.                 *)
(***************************************************************************)
EXTENDS Integers, Sequences, FiniteSets, TLC

(***************************************************************************)
(* Bounds                                                                  *)
(***************************************************************************)
MaxRowId == 4
MaxFuel == 8
MaxOps == 3
MaxClock == 1

NoFault == 1000

None == <<>>
Some(x) == <<x>>
Unwrap(o) == o[1]

Range(s) == {s[i] : i \in DOMAIN s}
SeqsUpTo(S, n) == UNION {[1..k -> S] : k \in 0..n}

(***************************************************************************)
(* Entity model: persistence.rs 18-63                                      *)
(***************************************************************************)
AuthNone == [variant |-> "None"]
Basic(u, p) == [variant |-> "Basic", username |-> u, password |-> p]
Bearer(t) == [variant |-> "Bearer", token |-> t]
ApiKey(k, v, h) == [variant |-> "ApiKey", key |-> k, value |-> v, in_header |-> h]

RequestData(n, m, u, h, b, q, p, a, c, t) ==
    [name |-> n, method |-> m, url |-> u, headers |-> h, body |-> b,
     query_params |-> q, path_params |-> p, auth |-> a,
     created_at |-> c, updated_at |-> t]

Environment(n, vars) == [name |-> n, variables |-> vars]

ProjectData(i, n, reqs, envs, c, t) ==
    [id |-> i, name |-> n, requests |-> reqs, environments |-> envs,
     created_at |-> c, updated_at |-> t]

(***************************************************************************)
(* serde_json text.  A document is kept as its parse tree: null, a string, *)
(* an array of two-element string arrays, or an object with one key whose  *)
(* value is an object of scalar members.                                   *)
(***************************************************************************)
JNull == [kind |-> "null"]
JString(s) == [kind |-> "string", s |-> s]
JPairs(v) == [kind |-> "array", items |-> v]
JObject(k, members) == [kind |-> "object", key |-> k, members |-> members]

\* serde_json::to_string(&Option<Vec<(String, String)>>)
to_string_params(o) == IF o = None THEN JNull ELSE JPairs(Unwrap(o))

\* serde_json::from_str::<Vec<(String, String)>>(text).ok()
from_str_params(j) == IF j.kind = "array" THEN Some(j.items) ELSE None

\* serde_json::to_string(&Option<AuthData>): externally tagged enum
to_string_auth(o) ==
    IF o = None THEN JNull
    ELSE LET a == Unwrap(o) IN
         CASE a.variant = "None" -> JString("None")
           [] a.variant = "Basic" ->
                JObject("Basic", [username |-> a.username, password |-> a.password])
           [] a.variant = "Bearer" -> JObject("Bearer", [token |-> a.token])
           [] a.variant = "ApiKey" ->
                JObject("ApiKey", [key |-> a.key, value |-> a.value,
                                   in_header |-> a.in_header])

\* serde_json::from_str::<AuthData>(text).ok()
from_str_auth(j) ==
    CASE j.kind = "string" /\ j.s = "None" -> Some(AuthNone)
      [] j.kind = "object" /\ j.key = "Basic" ->
            Some(Basic(j.members.username, j.members.password))
      [] j.kind = "object" /\ j.key = "Bearer" -> Some(Bearer(j.members.token))
      [] j.kind = "object" /\ j.key = "ApiKey" ->
            Some(ApiKey(j.members.key, j.members.value, j.members.in_header))
      [] OTHER -> None

(***************************************************************************)
(* The SQLite database: persistence.rs 170-250.  A table is a set of rows; *)
(* seq is sqlite_sequence, the largest rowid AUTOINCREMENT ever gave out.  *)
(* The connection is opened without PRAGMA foreign_keys, so whether the    *)
(* FOREIGN KEY clauses are enforced is the default of the SQLite library   *)
(* the program is built with: foreign_keys is either.                      *)
(***************************************************************************)
EmptyDb(foreign_keys) ==
    [foreign_keys |-> foreign_keys,
     projects |-> {}, environments |-> {}, environment_variables |-> {},
     requests |-> {}, headers |-> {},
     seq |-> [environments |-> 0, environment_variables |-> 0,
              requests |-> 0, headers |-> 0]]

\* rows of a SELECT without ORDER BY on a rowid table with no usable index:
\* a table scan, in ascending rowid
RECURSIVE ScanRows(_)
ScanRows(rows) ==
    IF rows = {} THEN <<>>
    ELSE LET r == CHOOSE x \in rows : \A y \in rows : x.id <= y.id
         IN <<r>> \o ScanRows(rows \ {r})

\* HashMap<String, String>::iter(): some order of the entries
RECURSIVE HashMapIter(_)
HashMapIter(vars) ==
    IF vars = {} THEN <<>>
    ELSE LET e == CHOOSE x \in vars : TRUE
         IN <<e>> \o HashMapIter(vars \ {e})

\* Vec<(String, String)>::into_iter().collect::<HashMap>(): the last value
\* given for a name wins
CollectHashMap(pairs) ==
    {pairs[i] : i \in {k \in DOMAIN pairs :
                         \A m \in DOMAIN pairs : pairs[m][1] = pairs[k][1] => m <= k}}

\* DropTransaction without the rollback
DropTransaction_keeps(before, uncommitted) == uncommitted

\* Drop of an uncommitted rusqlite Transaction: DropBehavior::Rollback
DropTransaction(before, uncommitted) == before

InsertOrReplaceProject(db, p) ==
    [db EXCEPT !.projects =
        {r \in @ : r.id # p.id} \cup
        {[id |-> p.id, name |-> p.name, created_at |-> p.created_at,
          updated_at |-> p.updated_at]}]

DeleteEnvironmentVariablesOf(db, pid) ==
    [db EXCEPT !.environment_variables =
        {v \in @ : ~\E e \in db.environments :
                        e.project_id = pid /\ e.id = v.environment_id}]

DeleteEnvironmentsOf(db, pid) ==
    [db EXCEPT !.environments = {e \in @ : e.project_id # pid}]

\* DELETE FROM headers without the WHERE clause
DeleteHeadersOf_every(db, pid) == [db EXCEPT !.headers = {}]

DeleteHeadersOf(db, pid) ==
    [db EXCEPT !.headers =
        {h \in @ : ~\E r \in db.requests :
                        r.project_id = pid /\ r.id = h.request_id}]

\* DeleteRequestsOf that deletes nothing
DeleteRequestsOf_nothing(db, pid) == db

DeleteRequestsOf(db, pid) ==
    [db EXCEPT !.requests = {r \in @ : r.project_id # pid}]

DeleteProjectRow(db, pid) ==
    [db EXCEPT !.projects = {r \in @ : r.id # pid}]

InsertEnvironment(db, p, env) ==
    [db EXCEPT !.seq.environments = @ + 1,
               !.environments = @ \cup
                  {[id |-> db.seq.environments + 1, project_id |-> p.id,
                    name |-> env.name, created_at |-> p.created_at,
                    updated_at |-> p.updated_at]}]

InsertEnvironmentVariable(db, env_id, kv) ==
    [db EXCEPT !.seq.environment_variables = @ + 1,
               !.environment_variables = @ \cup
                  {[id |-> db.seq.environment_variables + 1,
                    environment_id |-> env_id, name |-> kv[1], value |-> kv[2]]}]

InsertRequest(db, p, request) ==
    [db EXCEPT !.seq.requests = @ + 1,
               !.requests = @ \cup
                  {[id |-> db.seq.requests + 1, project_id |-> p.id,
                    name |-> request.name, method |-> request.method,
                    url |-> request.url, body |-> request.body,
                    query_params |-> to_string_params(request.query_params),
                    path_params |-> to_string_params(request.path_params),
                    auth_data |-> to_string_auth(request.auth),
                    created_at |-> request.created_at,
                    updated_at |-> request.updated_at]}]

InsertHeader(db, request_id, kv) ==
    [db EXCEPT !.seq.headers = @ + 1,
               !.headers = @ \cup
                  {[id |-> db.seq.headers + 1, request_id |-> request_id,
                    name |-> kv[1], value |-> kv[2]]}]

\* persistence.rs 176-234: a projects row that a child row refers to cannot
\* be deleted while foreign keys are enforced (no ON DELETE action).  The
\* other statements of save_project and delete_project run with the rows
\* they refer to in place and their child rows deleted before.
ForeignKeyFails(db, stmt) ==
    /\ db.foreign_keys
    /\ stmt.op = "DeleteProjectRow"
    /\ \/ \E e \in db.environments : e.project_id = stmt.id
       \/ \E r \in db.requests : r.project_id = stmt.id

\* the database after a statement; BEGIN and COMMIT write no row
Statement(db, stmt) ==
    CASE stmt.op = "InsertOrReplaceProject" -> InsertOrReplaceProject(db, stmt.project)
      [] stmt.op = "DeleteEnvironmentVariablesOf" ->
            DeleteEnvironmentVariablesOf(db, stmt.id)
      [] stmt.op = "DeleteEnvironmentsOf" -> DeleteEnvironmentsOf(db, stmt.id)
      [] stmt.op = "DeleteHeadersOf" -> DeleteHeadersOf(db, stmt.id)
      [] stmt.op = "DeleteRequestsOf" -> DeleteRequestsOf(db, stmt.id)
      [] stmt.op = "DeleteProjectRow" -> DeleteProjectRow(db, stmt.id)
      [] stmt.op = "InsertEnvironment" -> InsertEnvironment(db, stmt.project, stmt.env)
      [] stmt.op = "InsertEnvironmentVariable" ->
            InsertEnvironmentVariable(db, stmt.env_id, stmt.pair)
      [] stmt.op = "InsertRequest" -> InsertRequest(db, stmt.project, stmt.request)
      [] stmt.op = "InsertHeader" -> InsertHeader(db, stmt.request_id, stmt.pair)
      [] OTHER -> db

\* one statement of a transaction, tx.execute(..)?: an error once the
\* store has run the fuel statements it runs before it fails, or when the
\* statement breaks a constraint
Execute(st, stmt) ==
    IF st.err THEN st
    ELSE IF st.fuel = 0 \/ ForeignKeyFails(st.db, stmt) THEN [st EXCEPT !.err = TRUE]
    ELSE [db |-> Statement(st.db, stmt), fuel |-> st.fuel - 1, err |-> FALSE]

\* persistence.rs 259 and 461: self.conn.transaction()?
Begin(db, fuel) == Execute([db |-> db, fuel |-> fuel, err |-> FALSE], [op |-> "Begin"])

\* persistence.rs 286-291: one INSERT per variable; env_id is the
\* last_insert_rowid() taken right after the environment's INSERT
RECURSIVE InsertEnvironmentVariables(_, _, _)
InsertEnvironmentVariables(st, env_id, pairs) ==
    IF pairs = <<>> THEN st
    ELSE InsertEnvironmentVariables(
             Execute(st, [op |-> "InsertEnvironmentVariable", env_id |-> env_id,
                          pair |-> Head(pairs)]),
             env_id, Tail(pairs))

\* persistence.rs 329-336: one INSERT per header
RECURSIVE InsertHeaders(_, _, _)
InsertHeaders(st, request_id, pairs) ==
    IF pairs = <<>> THEN st
    ELSE InsertHeaders(
             Execute(st, [op |-> "InsertHeader", request_id |-> request_id,
                          pair |-> Head(pairs)]),
             request_id, Tail(pairs))

\* persistence.rs 286-291: the variables of the environment whose INSERT
\* has just run in st, under its last_insert_rowid()
InsertVariablesOf(st, env) ==
    InsertEnvironmentVariables(st, st.db.seq.environments, HashMapIter(env.variables))

\* persistence.rs 277-292
RECURSIVE InsertEnvironments(_, _, _)
InsertEnvironments(st, p, envs) ==
    IF envs = <<>> THEN st
    ELSE InsertEnvironments(
             InsertVariablesOf(
                 Execute(st, [op |-> "InsertEnvironment", project |-> p,
                              env |-> Head(envs)]),
                 Head(envs)),
             p, Tail(envs))

\* persistence.rs 327-336: the headers of the request whose INSERT has just
\* run in st, under its last_insert_rowid()
InsertHeadersOf(st, request) ==
    IF request.headers # None
    THEN InsertHeaders(st, st.db.seq.requests, Unwrap(request.headers))
    ELSE st

\* persistence.rs 305-337
RECURSIVE InsertRequests(_, _, _)
InsertRequests(st, p, reqs) ==
    IF reqs = <<>> THEN st
    ELSE InsertRequests(
             InsertHeadersOf(
                 Execute(st, [op |-> "InsertRequest", project |-> p,
                              request |-> Head(reqs)]),
                 Head(reqs)),
             p, Tail(reqs))

\* the end of a method that ran a transaction on the database before: Ok
\* after tx.commit(), or the error of a statement and the drop of tx
EndTransaction(before, st) ==
    IF st.err THEN [ok |-> FALSE, db |-> DropTransaction(before, st.db)]
    ELSE [ok |-> TRUE, db |-> st.db]

\* Storage::save_project.  fuel is the number of statements (BEGIN and
\* COMMIT included) that succeed before the storage fails; NoFault for a
\* healthy store.  The result is [ok, db].
save_project(db, project, fuel) ==
    LET s0 == Begin(db, fuel)
        s1 == Execute(s0, [op |-> "InsertOrReplaceProject", project |-> project])
        s2 == Execute(s1, [op |-> "DeleteEnvironmentVariablesOf", id |-> project.id])
        s3 == Execute(s2, [op |-> "DeleteEnvironmentsOf", id |-> project.id])
        s4 == InsertEnvironments(s3, project, project.environments)
        s5 == Execute(s4, [op |-> "DeleteHeadersOf", id |-> project.id])
        s6 == Execute(s5, [op |-> "DeleteRequestsOf", id |-> project.id])
        s7 == InsertRequests(s6, project, project.requests)
        s8 == Execute(s7, [op |-> "Commit"])
    IN EndTransaction(db, s8)

\* Statement::query_row: the first row or Error::QueryReturnedNoRows
query_row(rows) ==
    IF rows = {} THEN [err |-> "QueryReturnedNoRows"]
    ELSE [err |-> "", row |-> CHOOSE r \in rows : TRUE]

\* persistence.rs 368-395
LoadEnvironments(db, id) ==
    LET env_rows == ScanRows({e \in db.environments : e.project_id = id})
    IN [i \in DOMAIN env_rows |->
          LET vars == ScanRows({v \in db.environment_variables :
                                   v.environment_id = env_rows[i].id})
          IN Environment(env_rows[i].name,
                         CollectHashMap([k \in DOMAIN vars |->
                                            <<vars[k].name, vars[k].value>>]))]

\* persistence.rs 397-434
LoadRequests(db, id) ==
    LET request_rows == ScanRows({r \in db.requests : r.project_id = id})
    IN [i \in DOMAIN request_rows |->
          LET row == request_rows[i]
              hs == ScanRows({h \in db.headers : h.request_id = row.id})
          IN RequestData(row.name, row.method, row.url,
                         Some([k \in DOMAIN hs |-> <<hs[k].name, hs[k].value>>]),
                         row.body,
                         from_str_params(row.query_params),
                         from_str_params(row.path_params),
                         from_str_auth(row.auth_data),
                         row.created_at, row.updated_at)]

\* Storage::load_project.  The result is [ok, val] with val an
\* Option<ProjectData>; fault is a storage error in one of its queries.
load_project(db, id, fault) ==
    IF fault THEN [ok |-> FALSE, val |-> None]
    ELSE LET project == query_row({r \in db.projects : r.id = id})
         IN IF project.err = "QueryReturnedNoRows" THEN [ok |-> TRUE, val |-> None]
            ELSE IF project.err # "" THEN [ok |-> FALSE, val |-> None]
            ELSE [ok |-> TRUE,
                  val |-> Some(ProjectData(id, project.row.name,
                                           LoadRequests(db, id),
                                           LoadEnvironments(db, id),
                                           project.row.created_at,
                                           project.row.updated_at))]

\* ORDER BY id
RECURSIVE OrderById(_)
OrderById(rows) ==
    IF rows = {} THEN <<>>
    ELSE LET r == CHOOSE x \in rows : \A y \in rows : x.id <= y.id
         IN <<r>> \o OrderById(rows \ {r})

\* list_projects in descending id
list_projects_descending(db) ==
    LET rows == OrderById(db.projects)
    IN [i \in DOMAIN rows |->
          ProjectData(rows[Len(rows) + 1 - i].id, rows[Len(rows) + 1 - i].name,
                      <<>>, <<>>, 0, 0)]

\* Storage::list_projects
list_projects(db) ==
    LET rows == OrderById(db.projects)
    IN [i \in DOMAIN rows |-> ProjectData(rows[i].id, rows[i].name, <<>>, <<>>, 0, 0)]

\* Storage::delete_project.  The result is [ok, db].
delete_project(db, id, fuel) ==
    LET s0 == Begin(db, fuel)
        s1 == Execute(s0, [op |-> "DeleteHeadersOf", id |-> id])
        s2 == Execute(s1, [op |-> "DeleteRequestsOf", id |-> id])
        s3 == Execute(s2, [op |-> "DeleteProjectRow", id |-> id])
        s4 == Execute(s3, [op |-> "Commit"])
    IN EndTransaction(db, s4)

(***************************************************************************)
(* str: trim, split_once, split_whitespace                                 *)
(***************************************************************************)
RECURSIVE TrimStart(_)
TrimStart(s) == IF s # <<>> /\ Head(s) = " " THEN TrimStart(Tail(s)) ELSE s

RECURSIVE TrimEnd(_)
TrimEnd(s) ==
    IF s # <<>> /\ s[Len(s)] = " " THEN TrimEnd(SubSeq(s, 1, Len(s) - 1)) ELSE s

Trim(s) == TrimEnd(TrimStart(s))

\* str::split_once: None, or the text before and after the first separator
SplitOnce(s, sep) ==
    IF \E i \in DOMAIN s : s[i] = sep
    THEN LET i == CHOOSE k \in DOMAIN s : s[k] = sep /\ \A m \in 1..(k - 1) : s[m] # sep
         IN Some(<<SubSeq(s, 1, i - 1), SubSeq(s, i + 1, Len(s))>>)
    ELSE None

\* str::split_whitespace().collect()
RECURSIVE SplitWhitespace(_)
SplitWhitespace(s) ==
    LET t == TrimStart(s)
    IN IF t = <<>> THEN <<>>
       ELSE LET n == IF \E i \in DOMAIN t : t[i] = " "
                     THEN (CHOOSE k \in DOMAIN t :
                              t[k] = " " /\ \A m \in 1..(k - 1) : t[m] # " ") - 1
                     ELSE Len(t)
            IN <<SubSeq(t, 1, n)>> \o SplitWhitespace(SubSeq(t, n + 1, Len(t)))

Pop(s) == IF s = <<>> THEN s ELSE SubSeq(s, 1, Len(s) - 1)

(***************************************************************************)
(* Events: crossterm KeyEvent and MouseEvent.  A mouse position is kept as *)
(* the region of AppLayout::get_layout_areas it falls in and what the      *)
(* region's hit test computes from it.                                     *)
(***************************************************************************)
Key(code) == [type |-> "Key", code |-> code]
Char(c) == [type |-> "Key", code |-> "Char", c |-> c]
IsChar(e, c) == e.type = "Key" /\ e.code = "Char" /\ e.c = c
IsKey(e, code) == e.type = "Key" /\ e.code = code

Digits == {"0", "1", "2", "3", "4", "5", "6", "7", "8", "9"}
to_digit(c) ==
    CASE c = "0" -> 0 [] c = "1" -> 1 [] c = "2" -> 2 [] c = "3" -> 3 [] c = "4" -> 4
      [] c = "5" -> 5 [] c = "6" -> 6 [] c = "7" -> 7 [] c = "8" -> 8 [] c = "9" -> 9

Noop == [type |-> "Noop"]
Focused(b) == [type |-> "Focused", value |-> b]

(***************************************************************************)
(* Entity model: ProjectData::apply_update, persistence.rs 92-130          *)
(***************************************************************************)
RemoveAt(s, index) == SubSeq(s, 1, index) \o SubSeq(s, index + 2, Len(s))

\* an apply_update that leaves updated_at alone when the index is past the
\* end of the list
apply_update_unstamped(project, update, now) ==
    IF \/ /\ update.type \in {"UpdateRequest", "DeleteRequest"}
          /\ update.index >= Len(project.requests)
       \/ /\ update.type \in {"UpdateEnvironment", "DeleteEnvironment"}
          /\ update.index >= Len(project.environments)
    THEN project
    ELSE [project EXCEPT !.updated_at = now]

\* an apply_update whose DeleteRequest takes an index past the end for the
\* last request
apply_update_clamps(project, update, now) ==
    IF /\ update.type = "DeleteRequest" /\ project.requests # <<>>
       /\ update.index >= Len(project.requests)
    THEN [project EXCEPT !.updated_at = now,
                         !.requests = SubSeq(@, 1, Len(@) - 1)]
    ELSE [project EXCEPT !.updated_at = now]

apply_update(project, update, now) ==
    LET p == [project EXCEPT !.updated_at = now]
    IN CASE update.type = "AddRequest" ->
              [p EXCEPT !.requests = Append(@, update.request)]
         [] update.type = "UpdateRequest" ->
              IF update.index < Len(p.requests)
              THEN [p EXCEPT !.requests[update.index + 1] = update.request]
              ELSE p
         [] update.type = "DeleteRequest" ->
              IF update.index < Len(p.requests)
              THEN [p EXCEPT !.requests = RemoveAt(@, update.index)]
              ELSE p
         [] update.type = "UpdateName" -> [p EXCEPT !.name = update.name]
         [] update.type = "AddEnvironment" ->
              [p EXCEPT !.environments = Append(@, update.env)]
         [] update.type = "UpdateEnvironment" ->
              IF update.index < Len(p.environments)
              THEN [p EXCEPT !.environments[update.index + 1] = update.env]
              ELSE p
         [] update.type = "DeleteEnvironment" ->
              IF update.index < Len(p.environments)
              THEN [p EXCEPT !.environments = RemoveAt(@, update.index)]
              ELSE p

(***************************************************************************)
(* Header: components/header.rs                                            *)
(***************************************************************************)
ProjectTab(p) == [id |-> p.id, name |-> p.name]

Header_new(projects, current_project) ==
    [focused |-> FALSE, projects |-> projects, active_tab |-> 0,
     current_project |-> current_project]

add_project(h, tab) == [h EXCEPT !.projects = Append(@, tab)]

\* The 'd' key of the header, which app.rs 432-436 and 533-537 answer as
\* HeaderAction::DeleteProject: the header asks to delete the active tab.
Header_delete_key(h) ==
    IF h.projects # <<>>
    THEN [self |-> h, action |-> [type |-> "DeleteProject", index |-> h.active_tab]]
    ELSE [self |-> h, action |-> Noop]

\* handle_key_event taking any digit above 0 as a tab
Header_handle_key_event_unbounded(h, e) ==
    CASE IsChar(e, "t") ->
            [self |-> h,
             action |-> IF h.projects = <<>> THEN [type |-> "CreateProject"] ELSE Noop]
      [] IsChar(e, "h") \/ IsKey(e, "Left") ->
            IF h.projects # <<>> /\ h.active_tab > 0
            THEN [self |-> [h EXCEPT !.active_tab = @ - 1],
                  action |-> [type |-> "TabChanged", index |-> h.active_tab - 1]]
            ELSE [self |-> h, action |-> Noop]
      [] IsChar(e, "l") \/ IsKey(e, "Right") ->
            IF h.projects # <<>> /\ h.active_tab < Len(h.projects) - 1
            THEN [self |-> [h EXCEPT !.active_tab = @ + 1],
                  action |-> [type |-> "TabChanged", index |-> h.active_tab + 1]]
            ELSE [self |-> h, action |-> Noop]
      [] e.code = "Char" /\ e.c \in Digits ->
            LET num == to_digit(e.c)
            IN IF num > 0
               THEN [self |-> [h EXCEPT !.active_tab = num - 1],
                     action |-> [type |-> "TabChanged", index |-> num - 1]]
               ELSE [self |-> h, action |-> Noop]
      [] IsChar(e, "d") -> Header_delete_key(h)
      [] OTHER -> [self |-> h, action |-> Noop]

\* Header::handle_key_event
Header_handle_key_event(h, e) ==
    CASE IsChar(e, "t") ->
            [self |-> h,
             action |-> IF h.projects = <<>> THEN [type |-> "CreateProject"] ELSE Noop]
      [] IsChar(e, "h") \/ IsKey(e, "Left") ->
            IF h.projects # <<>> /\ h.active_tab > 0
            THEN [self |-> [h EXCEPT !.active_tab = @ - 1],
                  action |-> [type |-> "TabChanged", index |-> h.active_tab - 1]]
            ELSE [self |-> h, action |-> Noop]
      [] IsChar(e, "l") \/ IsKey(e, "Right") ->
            IF h.projects # <<>> /\ h.active_tab < Len(h.projects) - 1
            THEN [self |-> [h EXCEPT !.active_tab = @ + 1],
                  action |-> [type |-> "TabChanged", index |-> h.active_tab + 1]]
            ELSE [self |-> h, action |-> Noop]
      [] e.code = "Char" /\ e.c \in Digits ->
            LET num == to_digit(e.c)
            IN IF num > 0 /\ num <= Len(h.projects)
               THEN [self |-> [h EXCEPT !.active_tab = num - 1],
                     action |-> [type |-> "TabChanged", index |-> num - 1]]
               ELSE [self |-> h, action |-> Noop]
      [] IsChar(e, "d") -> Header_delete_key(h)
      [] OTHER -> [self |-> h, action |-> Noop]

\* Header::tick.  A left click over the header: on_tab_row says the row is
\* the inner row, clicked_tab is relative_x / tab_width.
Header_tick(h, e) ==
    IF e.type = "Key"
    THEN IF h.focused THEN Header_handle_key_event(h, e)
         ELSE [self |-> h, action |-> Noop]
    ELSE IF e.type = "Mouse" /\ e.kind = "DownLeft" /\ e.region = "header"
    THEN LET h1 == [h EXCEPT !.focused = TRUE]
         IN IF h.projects # <<>> /\ e.on_tab_row /\ e.clicked_tab < Len(h.projects)
            THEN [self |-> [h1 EXCEPT !.active_tab = e.clicked_tab],
                  action |-> [type |-> "TabChanged", index |-> e.clicked_tab]]
            ELSE [self |-> h1, action |-> Focused(TRUE)]
    ELSE [self |-> h, action |-> Noop]

(***************************************************************************)
(* Sidebar: components/sidebar.rs                                          *)
(***************************************************************************)
Sidebar_new == [focused |-> FALSE, requests |-> <<>>, selected_index |-> None]

\* set_requests that leaves the selection as it was
set_requests_keeps(sb, requests) == [sb EXCEPT !.requests = requests]

set_requests(sb, requests) ==
    [sb EXCEPT !.requests = requests,
               !.selected_index = IF requests = <<>> THEN None ELSE Some(0)]

clear_requests(sb) == [sb EXCEPT !.requests = <<>>, !.selected_index = None]

Selected(sb, index) == [type |-> "Selected", request |-> sb.requests[index + 1]]

\* handle_selection whose 'd' names the request after the selected one
Sidebar_handle_selection_next(sb, e) ==
    IF IsChar(e, "d") /\ sb.selected_index # None
    THEN [self |-> sb,
          action |-> Some([type |-> "ProjectUpdate",
                           update |-> [type |-> "DeleteRequest",
                                       index |-> Unwrap(sb.selected_index) + 1]])]
    ELSE [self |-> sb, action |-> None]

\* Sidebar::handle_selection; the action None stands for Option::None
Sidebar_handle_selection(sb, e) ==
    CASE IsChar(e, "j") \/ IsKey(e, "Down") ->
            IF sb.requests # <<>>
            THEN LET new_index ==
                        IF sb.selected_index = None THEN 0
                        ELSE IF Unwrap(sb.selected_index) < Len(sb.requests) - 1
                        THEN Unwrap(sb.selected_index) + 1
                        ELSE Unwrap(sb.selected_index)
                     sb1 == [sb EXCEPT !.selected_index = Some(new_index)]
                 IN [self |-> sb1, action |-> Some(Selected(sb1, new_index))]
            ELSE [self |-> sb, action |-> None]
      [] IsChar(e, "k") \/ IsKey(e, "Up") ->
            IF sb.requests # <<>>
            THEN LET new_index ==
                        IF sb.selected_index = None THEN Len(sb.requests) - 1
                        ELSE IF Unwrap(sb.selected_index) > 0
                        THEN Unwrap(sb.selected_index) - 1
                        ELSE Unwrap(sb.selected_index)
                     sb1 == [sb EXCEPT !.selected_index = Some(new_index)]
                 IN [self |-> sb1, action |-> Some(Selected(sb1, new_index))]
            ELSE [self |-> sb, action |-> None]
      [] IsKey(e, "Enter") ->
            [self |-> sb,
             action |-> IF sb.selected_index = None THEN None
                        ELSE Some(Selected(sb, Unwrap(sb.selected_index)))]
      [] IsChar(e, "a") -> [self |-> sb, action |-> Some([type |-> "ShowModal"])]
      [] IsChar(e, "d") ->
            [self |-> sb,
             action |-> IF sb.selected_index = None THEN None
                        ELSE Some([type |-> "ProjectUpdate",
                                   update |-> [type |-> "DeleteRequest",
                                               index |-> Unwrap(sb.selected_index)]])]
      [] OTHER -> [self |-> sb, action |-> None]

\* Sidebar::tick.  A left click over the sidebar: on_title says
\* row <= rect.y, relative_y is the row below the border.
Sidebar_tick(sb, e) ==
    IF e.type = "Key"
    THEN IF sb.focused
         THEN LET r == Sidebar_handle_selection(sb, e)
              IN [self |-> r.self,
                  action |-> IF r.action = None THEN Noop ELSE Unwrap(r.action)]
         ELSE [self |-> sb, action |-> Noop]
    ELSE IF e.type = "Mouse" /\ e.kind = "DownLeft" /\ e.region = "sidebar"
    THEN LET sb1 == [sb EXCEPT !.focused = TRUE]
         IN IF e.on_title THEN [self |-> sb1, action |-> Focused(TRUE)]
            ELSE IF e.relative_y < Len(sb.requests)
            THEN [self |-> [sb1 EXCEPT !.selected_index = Some(e.relative_y)],
                  action |-> Selected(sb, e.relative_y)]
            ELSE [self |-> sb1, action |-> Focused(TRUE)]
    ELSE [self |-> sb, action |-> Noop]

(***************************************************************************)
(* Footer: components/footer.rs                                            *)
(***************************************************************************)
Footer_new == [focused |-> FALSE, status |-> [text |-> "Ready"], mode |-> "NORMAL"]

set_status(f, status) == [f EXCEPT !.status = status]
set_mode(f, mode) == [f EXCEPT !.mode = mode]

Footer_tick(f, e) ==
    IF e.type = "Mouse" /\ e.kind = "DownLeft" /\ e.region = "footer"
    THEN [self |-> [f EXCEPT !.focused = TRUE], action |-> Focused(TRUE)]
    ELSE [self |-> f, action |-> Noop]

(***************************************************************************)
(* Content: components/content.rs                                          *)
(***************************************************************************)
Content_new ==
    [focused |-> FALSE, request |-> None, view_mode |-> "View",
     edit_field |-> "None", edit_buffer |-> <<>>]

\* Content::focus, the Component::focus (components/mod.rs 23) that app.rs 213
\* and 242 call: it stores the flag, as the focus of the other regions does
Content_focus(c, focused) == [c EXCEPT !.focused = focused]

set_request(c, request) ==
    [c EXCEPT !.request = Some(request), !.view_mode = "View",
              !.edit_field = "None", !.edit_buffer = <<>>]

clear_request(c) == [c EXCEPT !.request = None]

unwrap_or_default(o) == IF o = None THEN <<>> ELSE Unwrap(o)

enter_edit_mode(c) ==
    [c EXCEPT !.view_mode = "Edit", !.edit_field = "Method",
              !.edit_buffer = IF c.request # None
                              THEN unwrap_or_default(Unwrap(c.request).method)
                              ELSE @]

\* a get_next_field that stops at Body
get_next_field_stops(field) ==
    CASE field = "None" -> "Method"
      [] field = "Method" -> "Url"
      [] field = "Url" -> "Headers"
      [] field = "Headers" -> "QueryParams"
      [] field = "QueryParams" -> "PathParams"
      [] field = "PathParams" -> "Auth"
      [] OTHER -> "Body"

get_next_field(field) ==
    CASE field = "None" -> "Method"
      [] field = "Method" -> "Url"
      [] field = "Url" -> "Headers"
      [] field = "Headers" -> "QueryParams"
      [] field = "QueryParams" -> "PathParams"
      [] field = "PathParams" -> "Auth"
      [] field = "Auth" -> "Body"
      [] field = "Body" -> "Method"

get_previous_field(field) ==
    CASE field = "None" -> "Body"
      [] field = "Method" -> "Body"
      [] field = "Url" -> "Method"
      [] field = "Headers" -> "Url"
      [] field = "QueryParams" -> "Headers"
      [] field = "PathParams" -> "QueryParams"
      [] field = "Auth" -> "PathParams"
      [] field = "Body" -> "Auth"

ContentUpdated == [type |-> "ContentUpdated"]
RequestUpdated(request) == [type |-> "RequestUpdated", request |-> request]

\* handle_escape_key leaving edit mode at once, field active or not
handle_escape_key_leaves(c) ==
    [self |-> [c EXCEPT !.edit_field = "None", !.edit_buffer = <<>>, !.view_mode = "View"],
     action |-> ContentUpdated]

handle_escape_key(c) ==
    IF c.edit_field # "None"
    THEN [self |-> [c EXCEPT !.edit_field = "None", !.edit_buffer = <<>>],
          action |-> ContentUpdated]
    ELSE [self |-> [c EXCEPT !.view_mode = "View"], action |-> ContentUpdated]

\* the buffer a field starts with: content.rs 141-149 and 695-700
FieldBuffer(request, field) ==
    CASE field = "Method" -> unwrap_or_default(request.method)
      [] field = "Url" -> unwrap_or_default(request.url)
      [] field = "Body" -> unwrap_or_default(request.body)
      [] OTHER -> <<>>

handle_tab_key(c, backwards) ==
    LET field == IF backwards THEN get_previous_field(c.edit_field)
                 ELSE get_next_field(c.edit_field)
    IN [self |-> [c EXCEPT !.edit_field = field,
                           !.edit_buffer = IF c.request # None
                                           THEN FieldBuffer(Unwrap(c.request), field)
                                           ELSE @],
        action |-> ContentUpdated]

\* a handle_key_value_entry that empties a buffer it cannot split
handle_key_value_entry_clears(c, request, column) ==
    [self |-> [c EXCEPT !.edit_buffer = <<>>], request |-> request,
     action |-> ContentUpdated]

\* a handle_key_value_entry that does not trim the key and the value
handle_key_value_entry_untrimmed(c, request, column) ==
    LET separator == IF c.edit_field = "Headers" THEN ":" ELSE "="
        split == SplitOnce(c.edit_buffer, separator)
    IN IF c.request = None
       THEN [self |-> c, request |-> request, action |-> Noop]
       ELSE IF split # None
       THEN [self |-> [c EXCEPT !.edit_buffer = <<>>],
             request |-> [request EXCEPT
                            ![column] = Some(Append(unwrap_or_default(request[column]),
                                                    Unwrap(split)))],
             action |-> RequestUpdated(Unwrap(c.request))]
       ELSE [self |-> c, request |-> request, action |-> ContentUpdated]

\* Content::handle_key_value_entry on the list named by column; request is
\* the caller's clone of self.request.  The result also carries that clone.
handle_key_value_entry(c, request, column) ==
    LET separator == IF c.edit_field = "Headers" THEN ":" ELSE "="
        split == SplitOnce(c.edit_buffer, separator)
    IN IF c.request = None
       THEN [self |-> c, request |-> request, action |-> Noop]
       ELSE IF split # None
       THEN LET items == unwrap_or_default(request[column])
                pair == <<Trim(Unwrap(split)[1]), Trim(Unwrap(split)[2])>>
            IN [self |-> [c EXCEPT !.edit_buffer = <<>>],
                request |-> [request EXCEPT ![column] = Some(Append(items, pair))],
                action |-> RequestUpdated(Unwrap(c.request))]
       ELSE [self |-> c, request |-> request, action |-> ContentUpdated]

handle_enter_key(c) ==
    IF c.request = None THEN [self |-> c, action |-> Noop]
    ELSE LET request == Unwrap(c.request)
         IN CASE c.edit_field = "Method" ->
                   LET r1 == [request EXCEPT !.method = Some(c.edit_buffer)]
                   IN [self |-> [c EXCEPT !.request = Some(r1),
                                          !.edit_field = get_next_field(c.edit_field),
                                          !.edit_buffer = unwrap_or_default(r1.url)],
                       action |-> RequestUpdated(r1)]
              [] c.edit_field = "Url" ->
                   LET r1 == [request EXCEPT !.url = Some(c.edit_buffer)]
                   IN [self |-> [c EXCEPT !.request = Some(r1),
                                          !.edit_field = get_next_field(c.edit_field),
                                          !.edit_buffer = <<>>],
                       action |-> RequestUpdated(r1)]
              [] c.edit_field = "Headers" ->
                   LET r == handle_key_value_entry(c, request, "headers")
                   IN [self |-> [r.self EXCEPT !.request = Some(r.request)],
                       action |-> r.action]
              [] c.edit_field = "QueryParams" ->
                   LET r == handle_key_value_entry(c, request, "query_params")
                   IN [self |-> [r.self EXCEPT !.request = Some(r.request)],
                       action |-> r.action]
              [] c.edit_field = "PathParams" ->
                   LET r == handle_key_value_entry(c, request, "path_params")
                   IN [self |-> [r.self EXCEPT !.request = Some(r.request)],
                       action |-> r.action]
              [] c.edit_field = "Body" ->
                   LET r1 == [request EXCEPT !.body = Some(c.edit_buffer)]
                   IN [self |-> [c EXCEPT !.request = Some(r1), !.edit_buffer = <<>>],
                       action |-> RequestUpdated(r1)]
              [] OTHER -> [self |-> c, action |-> Noop]

handle_backspace_key(c) ==
    IF c.edit_field # "None"
    THEN [self |-> [c EXCEPT !.edit_buffer = Pop(@)], action |-> ContentUpdated]
    ELSE [self |-> c, action |-> Noop]

handle_char_key(c, ch) ==
    IF c.edit_field # "None"
    THEN [self |-> [c EXCEPT !.edit_buffer = Append(@, ch)], action |-> ContentUpdated]
    ELSE [self |-> c, action |-> Noop]

handle_edit_key(c, e) ==
    IF c.view_mode # "Edit" THEN [self |-> c, action |-> Noop]
    ELSE CASE e.code = "Esc" -> handle_escape_key(c)
           [] e.code = "Tab" -> handle_tab_key(c, FALSE)
           [] e.code = "BackTab" -> handle_tab_key(c, TRUE)
           [] e.code = "Enter" -> handle_enter_key(c)
           [] e.code = "Backspace" -> handle_backspace_key(c)
           [] e.code = "Char" -> handle_char_key(c, e.c)
           [] OTHER -> [self |-> c, action |-> Noop]

\* Content::handle_mouse_click.  chunk names the layout chunk under the
\* mouse: a field, "Submit", or "Other".
handle_mouse_click(c, chunk) ==
    IF c.request = None THEN [self |-> c, action |-> Noop]
    ELSE LET field == IF chunk \in {"Method", "Url", "Headers", "QueryParams",
                                    "PathParams", "Body"}
                      THEN chunk ELSE c.edit_field
         IN IF field # c.edit_field
            THEN [self |-> [c EXCEPT !.edit_field = field,
                                     !.edit_buffer = FieldBuffer(Unwrap(c.request), field)],
                  action |-> ContentUpdated]
            ELSE IF chunk = "Submit"
            THEN [self |-> c, action |-> RequestUpdated(Unwrap(c.request))]
            ELSE [self |-> c, action |-> Noop]

\* Content::tick
Content_tick(c, e) ==
    IF e.type = "Key" THEN handle_edit_key(c, e)
    ELSE IF e.type = "Mouse" /\ e.kind = "DownLeft" /\ e.region = "content"
    THEN handle_mouse_click(c, e.chunk)
    ELSE [self |-> c, action |-> Noop]

(***************************************************************************)
(* Modal: components/modal.rs                                              *)
(***************************************************************************)
ModalFields ==
    {"Name", "Method", "Url", "Headers", "QueryParams", "PathParams", "Auth", "Body"}

Modal_new ==
    [focused |-> TRUE, current_field |-> "Name",
     fields |-> [f \in ModalFields |-> <<>>],
     headers |-> <<>>, query_params |-> <<>>, path_params |-> <<>>,
     auth_type |-> AuthNone]

Modal_get_previous_field(field) ==
    CASE field = "Name" -> "Name"
      [] field = "Method" -> "Name"
      [] field = "Url" -> "Method"
      [] field = "Headers" -> "Url"
      [] field = "QueryParams" -> "Headers"
      [] field = "PathParams" -> "QueryParams"
      [] field = "Auth" -> "PathParams"
      [] field = "Body" -> "Auth"

Modal_get_next_field(field) ==
    CASE field = "Name" -> Some("Method")
      [] field = "Method" -> Some("Url")
      [] field = "Url" -> Some("Headers")
      [] field = "Headers" -> Some("QueryParams")
      [] field = "QueryParams" -> Some("PathParams")
      [] field = "PathParams" -> Some("Auth")
      [] field = "Auth" -> Some("Body")
      [] field = "Body" -> None

\* Modal::submit_request
submit_request(m, now) ==
    [type |-> "Submit",
     request |-> RequestData(m.fields["Name"], Some(m.fields["Method"]),
                             Some(m.fields["Url"]), Some(m.headers),
                             Some(m.fields["Body"]), Some(m.query_params),
                             Some(m.path_params), Some(m.auth_type), now, now)]

sBasic == <<"b", "a", "s", "i", "c">>
sBearer == <<"b", "e", "a", "r", "e", "r">>
sApikey == <<"a", "p", "i", "k", "e", "y">>
sHeader == <<"h", "e", "a", "d", "e", "r">>
sQuery == <<"q", "u", "e", "r", "y">>

\* modal.rs 158-187: the auth a buffer gives, starting from auth_type
ParseAuth(auth_type, value) ==
    LET parts == SplitWhitespace(Trim(value))
    IN IF parts # <<>> /\ parts[1] = sBasic
       THEN IF Len(parts) = 3 THEN Basic(parts[2], parts[3]) ELSE auth_type
       ELSE IF parts # <<>> /\ parts[1] = sBearer
       THEN IF Len(parts) = 2 THEN Bearer(parts[2]) ELSE auth_type
       ELSE IF parts # <<>> /\ parts[1] = sApikey
       THEN IF Len(parts) = 4 /\ (parts[4] = sHeader \/ parts[4] = sQuery)
            THEN ApiKey(parts[2], parts[3], parts[4] = sHeader)
            ELSE auth_type
       ELSE AuthNone

\* modal.rs 113-151: Enter on one of the three list fields
Modal_key_value_entry(m, field, list, sep) ==
    LET split == SplitOnce(Trim(m.fields[field]), sep)
    IN IF split # None
       THEN [m EXCEPT ![list] = Append(@, <<Trim(Unwrap(split)[1]),
                                            Trim(Unwrap(split)[2])>>),
                      !.fields[field] = <<>>]
       ELSE m

\* handle_key_event that ignores every key
Modal_handle_key_event_ignores(m, e, now) == [self |-> m, action |-> Noop]

\* Modal::handle_key_event
Modal_handle_key_event(m, e, now) ==
    CASE e.code = "Esc" -> [self |-> m, action |-> [type |-> "Close"]]
      [] e.code = "Tab" ->
            IF Modal_get_next_field(m.current_field) # None
            THEN [self |-> [m EXCEPT !.current_field =
                                        Unwrap(Modal_get_next_field(m.current_field))],
                  action |-> Noop]
            ELSE [self |-> m, action |-> submit_request(m, now)]
      [] e.code = "BackTab" ->
            [self |-> [m EXCEPT !.current_field = Modal_get_previous_field(@)],
             action |-> Noop]
      [] e.code = "Enter" ->
            IF m.current_field = "Body"
            THEN [self |-> m, action |-> submit_request(m, now)]
            ELSE [self |->
                    CASE m.current_field = "Headers" ->
                            Modal_key_value_entry(m, "Headers", "headers", ":")
                      [] m.current_field = "QueryParams" ->
                            Modal_key_value_entry(m, "QueryParams", "query_params", "=")
                      [] m.current_field = "PathParams" ->
                            Modal_key_value_entry(m, "PathParams", "path_params", "=")
                      [] m.current_field = "Auth" ->
                            [m EXCEPT !.auth_type = ParseAuth(@, m.fields["Auth"]),
                                      !.fields["Auth"] = <<>>]
                      [] OTHER ->
                            [m EXCEPT !.current_field =
                                         Unwrap(Modal_get_next_field(m.current_field))],
                  action |-> Noop]
      [] e.code = "Backspace" ->
            [self |-> [m EXCEPT !.fields[m.current_field] = Pop(@)], action |-> Noop]
      [] e.code = "Char" ->
            [self |-> [m EXCEPT !.fields[m.current_field] = Append(@, e.c)],
             action |-> Noop]
      [] OTHER -> [self |-> m, action |-> Noop]

\* Modal::handle_mouse_event: a left click on the input area of a field
\* makes it the current field
Modal_handle_mouse_event(m, e) ==
    IF e.kind = "DownLeft" /\ e.region = "modal" /\ e.field \in ModalFields
    THEN [self |-> [m EXCEPT !.current_field = e.field], action |-> Noop]
    ELSE [self |-> m, action |-> Noop]

\* Modal::tick
Modal_tick(m, e, now) ==
    IF e.type = "Key" THEN Modal_handle_key_event(m, e, now)
    ELSE IF e.type = "Mouse" THEN Modal_handle_mouse_event(m, e)
    ELSE [self |-> m, action |-> Noop]

(***************************************************************************)
(* App: app.rs.  An App value is a record of the fields of struct App; an  *)
(* operator that stands for a &mut self method returns the App after it.   *)
(* env carries what a step draws from outside the App: now (SystemTime),   *)
(* uuid (Uuid::new_v4), fuel (statements the store runs before it fails)   *)
(* and load_fault (whether a load_project query fails).                    *)
(***************************************************************************)
Status(text) == [text |-> text]
StatusName(text, name) == [text |-> text, name |-> name]

\* App::init_projects
init_projects(db) ==
    LET projects == list_projects(db)
    IN [projects |-> projects,
        current_project |-> IF projects = <<>> THEN None
                            ELSE load_project(db, projects[1].id, FALSE).val]

\* App::init_ui
init_ui(projects, current_project) ==
    [header |-> Header_new([i \in DOMAIN projects |-> ProjectTab(projects[i])],
                           IF current_project = None THEN None
                           ELSE Some(ProjectTab(Unwrap(current_project)))),
     sidebar |-> IF current_project # None
                 THEN set_requests(Sidebar_new, Unwrap(current_project).requests)
                 ELSE Sidebar_new,
     content |-> Content_new,
     footer |-> Footer_new]

\* App::new
App_new(db) ==
    LET init == init_projects(db)
        ui == init_ui(init.projects, init.current_project)
    IN [storage |-> db,
        header |-> ui.header,
        sidebar |-> [ui.sidebar EXCEPT !.focused = TRUE],
        content |-> ui.content,
        footer |-> ui.footer,
        current_focus |-> "Sidebar",
        previous_focus |-> None,
        mode |-> "Normal",
        current_project |-> init.current_project,
        projects |-> init.projects,
        project_name_buffer |-> <<>>,
        modal |-> None]

\* App::update_projects_list
update_projects_list(app, env) ==
    LET projects == list_projects(app.storage)
    IN [app EXCEPT !.projects = projects,
                   !.current_project =
                       IF projects = <<>> THEN None
                       ELSE load_project(app.storage, projects[1].id, env.load_fault).val]

\* app.rs 170-185: what follows the save of a new project
project_creation_saved(app, project_data, ok, env) ==
    IF ok.ok
    THEN [update_projects_list(
             [app EXCEPT !.storage = ok.db,
                         !.project_name_buffer = <<>>,
                         !.current_project =
                             load_project(ok.db, project_data.id, env.load_fault).val],
             env)
          EXCEPT !.header = add_project(@, ProjectTab(project_data)),
                 !.mode = "Normal"]
    ELSE [app EXCEPT !.storage = ok.db,
                     !.footer = set_status(@, Status("Failed to save project")),
                     !.mode = "Normal"]

\* app.rs 155-169: the project a name is given to
new_project(name, env) == ProjectData(env.uuid, name, <<>>, <<>>, env.now, env.now)

\* app.rs 194-203: the buffer after a key is shown in the footer
name_typed(app, buffer) ==
    [app EXCEPT !.project_name_buffer = buffer,
                !.footer = set_status(@, StatusName("New project name", buffer))]

\* a handle_project_creation whose Escape leaves the name buffer as it is
handle_project_creation_keeps(app, e, env) ==
    CASE e.code = "Char" -> name_typed(app, Append(app.project_name_buffer, e.c))
      [] OTHER -> [app EXCEPT !.mode = "Normal"]

\* App::handle_project_creation
handle_project_creation(app, e, env) ==
    CASE e.code = "Enter" ->
            IF app.project_name_buffer # <<>>
            THEN project_creation_saved(
                     app, new_project(app.project_name_buffer, env),
                     save_project(app.storage,
                                  new_project(app.project_name_buffer, env), env.fuel),
                     env)
            ELSE [app EXCEPT !.mode = "Normal"]
      [] e.code = "Esc" -> [app EXCEPT !.project_name_buffer = <<>>, !.mode = "Normal"]
      [] e.code = "Char" -> name_typed(app, Append(app.project_name_buffer, e.c))
      [] e.code = "Backspace" -> name_typed(app, Pop(app.project_name_buffer))
      [] OTHER -> app

\* App::unfocus_all_except
unfocus_all_except(app, except) ==
    [app EXCEPT !.sidebar.focused = IF except # "sidebar" THEN FALSE ELSE @,
                !.content = IF except # "content" THEN Content_focus(@, FALSE) ELSE @]

\* the name unfocus_all_except is given for a FocusPosition
RegionName(focus) ==
    CASE focus = "Header" -> "header"
      [] focus = "Sidebar" -> "sidebar"
      [] focus = "Content" -> "content"
      [] focus = "Footer" -> "footer"

\* App::handle_vim_navigation
handle_vim_navigation(app, e) ==
    LET new_focus ==
           CASE IsChar(e, "h") /\ app.current_focus = "Content" -> Some("Sidebar")
             [] IsChar(e, "h") /\ app.current_focus = "Sidebar" -> Some("Content")
             [] IsChar(e, "l") /\ app.current_focus = "Sidebar" -> Some("Content")
             [] IsChar(e, "l") /\ app.current_focus = "Content" -> Some("Sidebar")
             [] OTHER -> None
    IN IF new_focus = None THEN app
       ELSE LET a1 == unfocus_all_except(app, RegionName(Unwrap(new_focus)))
                a2 == CASE Unwrap(new_focus) = "Sidebar" ->
                              [a1 EXCEPT !.sidebar.focused = TRUE]
                        [] Unwrap(new_focus) = "Content" ->
                              [a1 EXCEPT !.content = Content_focus(@, TRUE)]
            IN [a2 EXCEPT !.current_focus = Unwrap(new_focus)]

\* App::update_footer_hints
update_footer_hints(app) ==
    LET mode_str == CASE app.mode = "Normal" -> "NORMAL"
                      [] app.mode = "Command" -> "COMMAND"
                      [] app.mode = "TabMode" -> "TAB"
                      [] app.mode = "CreateProject" -> "CREATE"
    IN [app EXCEPT !.footer = set_mode(@, mode_str)]

\* app.rs 297-308: what follows the load of the project of a tab
tab_loaded(app, l) ==
    IF l.ok /\ l.val # None
    THEN [app EXCEPT !.current_project = l.val,
                     !.sidebar = set_requests(@, Unwrap(l.val).requests),
                     !.content = clear_request(@)]
    ELSE app

\* App::handle_tab_change
handle_tab_change(app, tab_index, env) ==
    IF tab_index < Len(app.projects)
    THEN tab_loaded(app, load_project(app.storage, app.projects[tab_index + 1].id,
                                      env.load_fault))
    ELSE app

\* app.rs 326-356: the header, sidebar, content and footer after the
\* project list was read again
reset_after_delete(app) ==
    [app EXCEPT
       !.header = [Header_new([i \in DOMAIN app.projects |-> ProjectTab(app.projects[i])],
                              IF app.current_project = None THEN None
                              ELSE Some(ProjectTab(Unwrap(app.current_project))))
                   EXCEPT !.focused = TRUE],
       !.sidebar = set_requests(@, IF app.current_project # None
                                   THEN Unwrap(app.current_project).requests
                                   ELSE <<>>),
       !.content = clear_request(@),
       !.footer = set_status(@, Status("Project deleted successfully"))]

\* app.rs 317-356: what follows Storage::delete_project
project_deleted(app, d, env) ==
    IF ~d.ok
    THEN [app EXCEPT !.storage = d.db,
                     !.footer = set_status(@, Status("Failed to delete project"))]
    ELSE reset_after_delete(update_projects_list([app EXCEPT !.storage = d.db], env))

\* App::delete_project
App_delete_project(app, tab_index, env) ==
    IF tab_index < Len(app.projects)
    THEN project_deleted(app,
                         delete_project(app.storage, app.projects[tab_index + 1].id,
                                        env.fuel),
                         env)
    ELSE app

\* what a step that reached no modal records as the modal's answer
NoModal == [type |-> "NoModal"]

\* a project_saved that takes the update back when the save fails
project_saved_rolls_back(app, project, ok) ==
    IF ok.ok
    THEN [app EXCEPT !.current_project = Some(project), !.storage = ok.db,
                     !.sidebar = set_requests(@, project.requests)]
    ELSE [app EXCEPT !.footer = set_status(@, Status("Failed to save project"))]

\* app.rs 390-395 and 554-561: the current project after an update is
\* saved, and the sidebar shows its requests
project_saved(app, project, ok) ==
    [app EXCEPT !.current_project = Some(project),
                !.storage = ok.db,
                !.footer = IF ok.ok THEN @
                           ELSE set_status(@, Status("Failed to save project")),
                !.sidebar = set_requests(@, project.requests)]

\* app.rs 389-396 and 553-563: an update of the current project
update_current_project(app, update, env) ==
    IF app.current_project # None
    THEN project_saved(app,
                       apply_update(Unwrap(app.current_project), update, env.now),
                       save_project(app.storage,
                                    apply_update(Unwrap(app.current_project), update,
                                                 env.now),
                                    env.fuel))
    ELSE app

\* app.rs 368-378: the modal answered Close
handle_modal_close(app) ==
    unfocus_all_except([app EXCEPT !.modal = None], RegionName(app.current_focus))

\* handle_modal_submit that drops the request
handle_modal_submit_drops(app, request, env) ==
    unfocus_all_except([app EXCEPT !.modal = None], RegionName(app.current_focus))

\* app.rs 379-397: the modal answered Submit(request)
handle_modal_submit(app, request, env) ==
    update_current_project(
        unfocus_all_except([app EXCEPT !.modal = None], RegionName(app.current_focus)),
        [type |-> "AddRequest", request |-> request], env)

\* app.rs 368-401: the App and the answer after the modal's tick gave r
handle_modal_action(app, r, env) ==
    CASE r.action.type = "Close" ->
            [app |-> handle_modal_close(app),
             answer |-> [type |-> "Close",
                         typed |-> \E f \in ModalFields : r.self.fields[f] # <<>>]]
      [] r.action.type = "Submit" ->
            [app |-> handle_modal_submit(app, r.action.request, env),
             answer |-> r.action]
      [] OTHER ->
            [app |-> [app EXCEPT !.modal = Some(r.self)], answer |-> r.action]

\* App::handle_modal_events.  The result is the App and the modal's answer.
handle_modal_events(app, e, env) ==
    IF e.type \in {"Key", "Mouse"}
    THEN handle_modal_action(app, Modal_tick(Unwrap(app.modal), e, env.now), env)
    ELSE [app |-> app, answer |-> Noop]

\* app.rs 429-438 and 530-538: what the App does with a HeaderAction that
\* changes or deletes a tab
handle_header_tab_action(app, action, env) ==
    CASE action.type = "TabChanged" -> handle_tab_change(app, action.index, env)
      [] action.type = "DeleteProject" ->
            update_footer_hints([App_delete_project(app, action.index, env)
                                    EXCEPT !.mode = "Normal"])
      [] OTHER -> app

\* app.rs 410-418: the focus TabMode was entered from comes back
restore_previous_focus(app) ==
    IF app.previous_focus # None
    THEN unfocus_all_except(
             [app EXCEPT !.current_focus = Unwrap(app.previous_focus),
                         !.previous_focus = None],
             RegionName(Unwrap(app.previous_focus)))
    ELSE app

\* app.rs 428-438: the header took a key and gave r
header_answered(app, r, env) ==
    handle_header_tab_action([app EXCEPT !.header = r.self], r.action, env)

\* App::handle_tab_events
handle_tab_events(app, e, env) ==
    CASE e.code = "Esc" ->
            update_footer_hints(restore_previous_focus([app EXCEPT !.mode = "Normal"]))
      [] IsChar(e, " ") -> update_footer_hints(app)
      [] OTHER -> header_answered(app, Header_handle_key_event(app.header, e), env)

\* ModalCaptures that lets every event past the modal
ModalCaptures_never(app) == FALSE

\* app.rs 448: an open modal takes the event
ModalCaptures(app) == app.modal # None

\* app.rs 492-500: 't' in Command mode
enter_tab_mode(app) ==
    update_footer_hints(
        [unfocus_all_except(
             [app EXCEPT !.mode = "TabMode", !.previous_focus = Some(app.current_focus)],
             "header")
         EXCEPT !.header.focused = TRUE, !.current_focus = "Header"])

\* app.rs 518-539
handle_header_action(app, action, env) ==
    CASE action = Focused(TRUE) ->
            update_footer_hints([unfocus_all_except(app, "header")
                                    EXCEPT !.current_focus = "Header"])
      [] action.type = "CreateProject" ->
            update_footer_hints([app EXCEPT !.mode = "CreateProject"])
      [] OTHER -> handle_header_tab_action(app, action, env)

\* app.rs 541-570
handle_sidebar_action(app, action, env) ==
    CASE action = Focused(TRUE) ->
            update_footer_hints([unfocus_all_except(app, "sidebar")
                                    EXCEPT !.current_focus = "Sidebar"])
      [] action.type = "Selected" ->
            [app EXCEPT !.content = set_request(@, action.request)]
      [] action.type = "ProjectUpdate" -> update_current_project(app, action.update, env)
      [] action.type = "ShowModal" -> [app EXCEPT !.modal = Some(Modal_new)]
      [] OTHER -> app

\* app.rs 572-581
handle_content_action(app, action) ==
    IF action = Focused(TRUE)
    THEN update_footer_hints([unfocus_all_except(app, "content")
                                 EXCEPT !.current_focus = "Content"])
    ELSE app

\* app.rs 583-592
handle_footer_action(app, action) ==
    IF action = Focused(TRUE)
    THEN update_footer_hints([unfocus_all_except(app, "footer")
                                 EXCEPT !.current_focus = "Footer"])
    ELSE app

\* app.rs 518-592: the App answers the actions h, sb, c and f of the four
\* regions in turn
answer_components(app, h, sb, c, f, env) ==
    handle_footer_action(
        handle_content_action(
            handle_sidebar_action(
                handle_header_action(
                    [app EXCEPT !.header = h.self, !.sidebar = sb.self,
                                !.content = c.self, !.footer = f.self],
                    h.action, env),
                sb.action, env),
            c.action),
        f.action)

\* app.rs 513-592: the four regions take the event, then the App answers
tick_components(app, e, env) ==
    answer_components(app, Header_tick(app.header, e), Sidebar_tick(app.sidebar, e),
                      Content_tick(app.content, e), Footer_tick(app.footer, e), env)

\* the result of a tick that went past the modal: the App and AppAction
Return(app) == [app |-> app, action |-> "Noop", answer |-> NoModal]

\* app.rs 449-450: the result of a tick an open modal took
ReturnModal(r) == [app |-> r.app, action |-> "Noop", answer |-> r.answer]

\* a tick that returns Quit for 'q' whatever the mode and the modal
tick_quits_anywhere(app, e, env) ==
    [app |-> app, action |-> IF IsChar(e, "q") THEN "Quit" ELSE "Noop",
     answer |-> NoModal]

\* App::tick on Some(event).  The result is the App, the AppAction and the
\* answer of the modal when the event went to one.
tick(app, e, env) ==
    IF ModalCaptures(app)
    THEN ReturnModal(handle_modal_events(app, e, env))
    ELSE IF e.type = "Key" /\ app.mode = "CreateProject"
    THEN Return(handle_project_creation(app, e, env))
    ELSE IF e.type = "Key" /\ app.mode = "TabMode"
    THEN Return(handle_tab_events(app, e, env))
    ELSE IF e.type = "Key" /\ app.mode = "Normal" /\ IsChar(e, " ")
    THEN Return(update_footer_hints([app EXCEPT !.mode = "Command"]))
    ELSE IF e.type = "Key" /\ app.mode = "Normal" /\ (IsChar(e, "h") \/ IsChar(e, "l"))
    THEN Return(update_footer_hints(handle_vim_navigation(app, e)))
    ELSE IF e.type = "Key" /\ app.mode = "Command"
    THEN CASE IsChar(e, " ") \/ IsChar(e, "n") ->
                 Return(update_footer_hints([app EXCEPT !.mode = "Normal"]))
           [] IsChar(e, "q") -> [app |-> app, action |-> "Quit", answer |-> NoModal]
           [] IsChar(e, "t") -> Return(enter_tab_mode(app))
           [] IsChar(e, "c") ->
                 Return(update_footer_hints([app EXCEPT !.mode = "CreateProject"]))
           [] OTHER -> Return(app)
    ELSE Return(tick_components(app, e, env))

(***************************************************************************)
(* Values the store is exercised with                                      *)
(***************************************************************************)
ProjectIds == {1, 2}
MaxRequests == 2
MaxEnvironments == 1

kv == <<<<"k">>, <<"v">>>>
kw == <<<<"k">>, <<"w">>>>

RequestPool ==
    << RequestData(<<"r">>, None, None, None, None, None, None, None, 0, 0),
       RequestData(<<"s">>, Some(<<"G">>), Some(<<"u">>), Some(<<kv>>), Some(<<"b">>),
                   Some(<<kv>>), Some(<<kw>>), Some(Basic(<<"u">>, <<"p">>)), 1, 2),
       RequestData(<<"r">>, Some(<<>>), None, Some(<<>>), None,
                   Some(<<>>), None, Some(AuthNone), 0, 1),
       RequestData(<<"t">>, None, Some(<<"u">>), Some(<<kv, kw>>), None,
                   None, Some(<<kv>>), Some(Bearer(<<"t">>)), 0, 0),
       RequestData(<<"a">>, Some(<<"P">>), None, Some(<<kw>>), Some(<<>>),
                   None, None, Some(ApiKey(<<"k">>, <<"v">>, TRUE)), 1, 1) >>

EnvironmentPool ==
    << Environment(<<"f">>, {kv, <<<<"m">>, <<"w">>>>}),
       Environment(<<"e">>, {}) >>

\* the runs of at most n consecutive elements of a pool
Windows(pool, n) ==
    {SubSeq(pool, i, j) : i \in 1..Len(pool), j \in 0..Len(pool)} \cap SeqsUpTo(Range(pool), n)

\* project 1 takes every window of the request pool; project 2 a few values
ProjectValues ==
    { ProjectData(1, <<"A">>, reqs, <<>>, 1, 2) :
        reqs \in Windows(RequestPool, MaxRequests) }
    \cup
    { ProjectData(1, <<"B">>, reqs, envs, 1, 3) :
        reqs \in {<<>>, SubSeq(RequestPool, 2, 2)},
        envs \in Windows(EnvironmentPool, MaxEnvironments) \ {<<>>} }
    \cup
    { ProjectData(2, <<"A">>, <<>>, <<>>, 1, 2),
      ProjectData(2, <<"C">>, SubSeq(RequestPool, 2, 3), SubSeq(EnvironmentPool, 1, 1), 2, 2),
      ProjectData(2, <<"A">>, SubSeq(RequestPool, 4, 4), <<>>, 1, 2) }

Fuels == (0..MaxFuel) \cup {NoFault}

(***************************************************************************)
(* State                                                                   *)
(***************************************************************************)
VARIABLES
    storage,      \* App.storage: the database behind the Storage connection
    header, sidebar, content, footer,    \* App's four regions
    current_focus, previous_focus, mode, \* App.current_focus, .previous_focus, .mode
    current_project, projects,           \* App.current_project, App.projects
    project_name_buffer,                 \* App.project_name_buffer
    modal,        \* App.modal
    tick_count,   \* App.tick_count
    running,      \* main's loop has not seen AppAction::Quit
    answer,       \* the ModalAction of the last step, NoModal if it met no modal
    focus_at_open,   \* while a modal is open, the focus as the modal was opened
    focus_at_entry,  \* while in TabMode, the focus target as TabMode was entered
    last,         \* the last call made on the Storage and its outcome
    committed,    \* the database as of the last commit
    saved,        \* per project id, the value of its last successful save
    nops          \* the number of calls made on the Storage

appvars == <<header, sidebar, content, footer, current_focus, previous_focus, mode,
             current_project, projects, project_name_buffer, modal, tick_count,
             running, answer, focus_at_open, focus_at_entry>>
storevars == <<last, committed, saved, nops>>
vars == <<storage, appvars, storevars>>

\* the App the variables hold
App ==
    [storage |-> storage, header |-> header, sidebar |-> sidebar, content |-> content,
     footer |-> footer, current_focus |-> current_focus,
     previous_focus |-> previous_focus, mode |-> mode,
     current_project |-> current_project, projects |-> projects,
     project_name_buffer |-> project_name_buffer, modal |-> modal]

\* the variables hold the App a
IsApp(a) ==
    /\ storage = a.storage /\ header = a.header /\ sidebar = a.sidebar
    /\ content = a.content /\ footer = a.footer
    /\ current_focus = a.current_focus /\ previous_focus = a.previous_focus
    /\ mode = a.mode /\ current_project = a.current_project
    /\ projects = a.projects /\ project_name_buffer = a.project_name_buffer
    /\ modal = a.modal

\* the step leaves the App a in the variables
BecomesApp(a) ==
    /\ storage' = a.storage /\ header' = a.header /\ sidebar' = a.sidebar
    /\ content' = a.content /\ footer' = a.footer
    /\ current_focus' = a.current_focus /\ previous_focus' = a.previous_focus
    /\ mode' = a.mode /\ current_project' = a.current_project
    /\ projects' = a.projects /\ project_name_buffer' = a.project_name_buffer
    /\ modal' = a.modal

\* the focus target and the focused flag of each region of an App
FocusOf(a) ==
    [target |-> a.current_focus, header |-> a.header.focused,
     sidebar |-> a.sidebar.focused, content |-> a.content.focused,
     footer |-> a.footer.focused]

StoreInit ==
    /\ \E foreign_keys \in BOOLEAN : IsApp(App_new(EmptyDb(foreign_keys)))
    /\ tick_count = 0
    /\ running = TRUE
    /\ answer = NoModal
    /\ focus_at_open = None
    /\ focus_at_entry = None
    /\ last = [op |-> "new"]
    /\ committed = storage
    /\ saved = [i \in ProjectIds |-> None]
    /\ nops = 0

Stored(db, id) == \E r \in db.projects : r.id = id

HasChildren(db, id) ==
    \/ \E r \in db.requests : r.project_id = id
    \/ \E e \in db.environments : e.project_id = id

\* a caller runs Storage::save_project
SaveProject ==
    \E p \in ProjectValues, fuel \in Fuels :
        /\ nops < MaxOps
        /\ nops' = nops + 1
        /\ LET r == save_project(storage, p, fuel)
           IN /\ storage' = r.db
              /\ last' = IF r.ok
                         THEN [op |-> "save", id |-> p.id, ok |-> TRUE, project |-> p,
                               existed |-> Stored(storage, p.id),
                               had_children |-> HasChildren(storage, p.id)]
                         ELSE [op |-> "save", id |-> p.id, ok |-> FALSE,
                               inserting |-> fuel >= 7 /\ Len(p.requests) >= 2,
                               had_children |-> HasChildren(storage, p.id)]
              /\ committed' = IF r.ok THEN r.db ELSE committed
              /\ saved' = IF r.ok THEN [saved EXCEPT ![p.id] = Some(p)] ELSE saved
              /\ UNCHANGED appvars

\* a caller runs Storage::delete_project
DeleteProject ==
    \E id \in ProjectIds, fuel \in Fuels :
        LET r == delete_project(storage, id, fuel)
        IN /\ nops < MaxOps
           /\ nops' = nops + 1
           /\ storage' = r.db
           /\ last' = [op |-> "delete", id |-> id, ok |-> r.ok,
                       healthy |-> fuel = NoFault,
                       existed |-> Stored(storage, id),
                       again |-> last.op = "delete" /\ last.id = id /\ last.ok]
           /\ committed' = IF r.ok THEN r.db ELSE committed
           /\ saved' = IF r.ok THEN [saved EXCEPT ![id] = None] ELSE saved
           /\ UNCHANGED appvars

StoreNext == SaveProject \/ DeleteProject

SpecStore == StoreInit /\ [][StoreNext]_vars

(***************************************************************************)
(* The Router: main.rs drives App::tick with the terminal's events         *)
(***************************************************************************)
MaxName == 1      \* characters typed into the project name buffer
MaxTyped == 2     \* characters typed into the fields of one modal
MaxTabs == 2      \* tab positions a header click can land on
MaxRows == 2      \* rows below the title a sidebar click can land on
FaultFuel == 3    \* statements a failing store runs before its error
MaxTicks == 6     \* calls of App::tick; tick_count stays far from its wrap at 2^32

KeyCodes == {"Esc", "Enter", "Tab", "BackTab", "Backspace", "Left", "Right", "Up", "Down"}
CommandChars == {" ", "h", "l", "q", "n", "t", "c", "j", "k", "a", "d", "1", "2"}
TextChars == {"a", ":"}

\* characters in the fields of a modal
Typed(m) ==
    Len(m.fields["Name"]) + Len(m.fields["Method"]) + Len(m.fields["Url"])
    + Len(m.fields["Headers"]) + Len(m.fields["QueryParams"])
    + Len(m.fields["PathParams"]) + Len(m.fields["Auth"]) + Len(m.fields["Body"])

\* the keys pressed in a state: where characters are taken as text, a few
\* text characters while there is room; elsewhere the command characters
KeyEvents ==
    {Key(code) : code \in KeyCodes}
    \cup
    {Char(c) : c \in
        IF modal # None
        THEN IF Typed(Unwrap(modal)) < MaxTyped THEN TextChars ELSE {}
        ELSE IF mode = "CreateProject"
        THEN IF Len(project_name_buffer) < MaxName THEN TextChars ELSE {}
        ELSE CommandChars \cup TextChars}

ContentChunks ==
    {"Method", "Url", "Headers", "QueryParams", "PathParams", "Body", "Submit", "Other"}

Click(region) == [type |-> "Mouse", kind |-> "DownLeft", region |-> region]

\* left clicks over each region, over the fields of an open modal, and a
\* mouse event that is no left click
MouseEvents ==
    {[type |-> "Mouse", kind |-> "DownLeft", region |-> "header",
      on_tab_row |-> r, clicked_tab |-> t] : r \in BOOLEAN, t \in 0..MaxTabs}
    \cup
    {[type |-> "Mouse", kind |-> "DownLeft", region |-> "sidebar",
      on_title |-> o, relative_y |-> y] : o \in BOOLEAN, y \in 0..MaxRows}
    \cup
    {[type |-> "Mouse", kind |-> "DownLeft", region |-> "content", chunk |-> c] :
        c \in ContentChunks}
    \cup
    {Click("footer"), [type |-> "Mouse", kind |-> "Moved", region |-> "sidebar"]}
    \cup
    IF modal # None
    THEN {[type |-> "Mouse", kind |-> "DownLeft", region |-> "modal", field |-> f] :
             f \in ModalFields \cup {"Label"}}
    ELSE {}

\* ids Uuid::new_v4 can give: those of no stored project
FreshIds == {i \in ProjectIds : ~\E r \in storage.projects : r.id = i}

HealthyEnv(uuid) == [now |-> MaxClock, uuid |-> uuid, fuel |-> NoFault, load_fault |-> FALSE]

\* what a step draws from outside the App
Envs ==
    {[now |-> now, uuid |-> uuid, fuel |-> fuel, load_fault |-> fault] :
        now \in 1..MaxClock, uuid \in FreshIds,
        fuel \in {NoFault, FaultFuel}, fault \in BOOLEAN}

\* the rowids of the store stay within MaxRowId
WithinRowIds(db) ==
    /\ db.seq.requests <= MaxRowId
    /\ db.seq.headers <= MaxRowId
    /\ db.seq.environments <= MaxRowId
    /\ db.seq.environment_variables <= MaxRowId

\* main.rs 33-37: one event goes through App::tick
Run(e, env) ==
    \E r \in {tick(App, e, env)} :
       /\ running
       /\ tick_count' = tick_count + 1
       /\ WithinRowIds(r.app.storage)
       /\ BecomesApp(r.app)
       /\ running' = (r.action # "Quit")
       /\ answer' = r.answer
       /\ focus_at_open' = IF r.app.modal = None THEN None
                           ELSE IF modal = None THEN Some(FocusOf(App))
                           ELSE focus_at_open
       /\ focus_at_entry' = IF r.app.mode # "TabMode" THEN None
                            ELSE IF mode # "TabMode" THEN Some(current_focus)
                            ELSE focus_at_entry
       /\ UNCHANGED storevars

\* one turn of main's loop, within the horizon of the model
Step(e, env) == tick_count < MaxTicks /\ Run(e, env)

\* a key that can take the App to the store
StoreKeys ==
    {Key(code) : code \in {"Enter", "Tab", "Left", "Right"}}
    \cup {Char(c) : c \in {"h", "l", "d", "1", "2"}}

\* a key event that stays within the App
KeyPress ==
    \E e \in KeyEvents \ StoreKeys : \E uuid \in ProjectIds : Step(e, HealthyEnv(uuid))

\* a key event that can reach the store, which may fail
StoreKeyPress ==
    \E e \in KeyEvents \cap StoreKeys : \E env \in Envs : Step(e, env)

\* a mouse event; a click on a header tab loads from the store
MouseClick ==
    \E e \in MouseEvents :
        \E env \in IF e.region = "header"
                   THEN {[HealthyEnv(1) EXCEPT !.load_fault = f] : f \in BOOLEAN}
                   ELSE {HealthyEnv(1)} :
            Step(e, env)

\* main.rs 38: no event within the poll interval, App::tick(None)
NoEvent ==
    /\ running
    /\ tick_count < MaxTicks
    /\ tick_count' = tick_count + 1
    /\ UNCHANGED <<storage, header, sidebar, content, footer, current_focus,
                   previous_focus, mode, current_project, projects,
                   project_name_buffer, modal, running, answer, focus_at_open,
                   focus_at_entry, storevars>>

InitialProject ==
    ProjectData(1, <<"A">>, SubSeq(RequestPool, 2, 2),
                <<Environment(<<"e">>, {kv})>>, 1, 1)

InitialStores ==
    UNION {{EmptyDb(foreign_keys),
            save_project(EmptyDb(foreign_keys), InitialProject, NoFault).db} :
              foreign_keys \in BOOLEAN}

\* main.rs 20-22: Storage::new, App::new
Init ==
    /\ \E db \in InitialStores : IsApp(App_new(db))
    /\ tick_count = 0
    /\ running = TRUE
    /\ answer = NoModal
    /\ focus_at_open = None
    /\ focus_at_entry = None
    /\ last = [op |-> "new"]
    /\ committed = storage
    /\ saved = [i \in ProjectIds |-> None]
    /\ nops = 0

Next == KeyPress \/ StoreKeyPress \/ MouseClick \/ NoEvent

Spec == Init /\ [][Next]_vars

(***************************************************************************)
(* Properties of the store                                                 *)
(***************************************************************************)
Ok(v) == [ok |-> TRUE, val |-> v]

SameUpToOrder(s, t) ==
    /\ Len(s) = Len(t)
    /\ \A x \in Range(s) \cup Range(t) :
          Cardinality({i \in DOMAIN s : s[i] = x}) =
          Cardinality({i \in DOMAIN t : t[i] = x})

\* pairs of a header list that may be absent
HeaderPairs(request) == IF request.headers = None THEN <<>> ELSE Unwrap(request.headers)

\* the columns save_project writes for a request
RequestColumns(request) ==
    [name |-> request.name, method |-> request.method, url |-> request.url,
     body |-> request.body,
     query_params |-> to_string_params(request.query_params),
     path_params |-> to_string_params(request.path_params),
     auth_data |-> to_string_auth(request.auth),
     created_at |-> request.created_at, updated_at |-> request.updated_at]

ColumnsOfRow(row) ==
    [name |-> row.name, method |-> row.method, url |-> row.url, body |-> row.body,
     query_params |-> row.query_params, path_params |-> row.path_params,
     auth_data |-> row.auth_data,
     created_at |-> row.created_at, updated_at |-> row.updated_at]

\* the value a project has once it is in the store: each request carries
\* its header rows as a list
StoredForm(p) ==
    [p EXCEPT !.requests =
        [i \in DOMAIN p.requests |->
            [p.requests[i] EXCEPT !.headers = Some(HeaderPairs(p.requests[i]))]]]

\* C1: save_project(p) then load_project(p.id) returns Some(q) with q equal
\* to p field for field, the child lists compared up to order.
C1_RoundTrip ==
    (last.op = "save" /\ last.ok) =>
        LET l == load_project(storage, last.id, FALSE)
            p == last.project
        IN /\ l.ok /\ l.val # None
           /\ Unwrap(l.val).id = p.id
           /\ Unwrap(l.val).name = p.name
           /\ Unwrap(l.val).created_at = p.created_at
           /\ Unwrap(l.val).updated_at = p.updated_at
           /\ SameUpToOrder(Unwrap(l.val).requests, p.requests)
           /\ SameUpToOrder(Unwrap(l.val).environments, p.environments)

\* C2: after a save_project that failed before its commit, load_project of
\* that id returns the project as it was last successfully saved, or None
\* when there is no such version; every table is as the last commit left it.
C2_Atomicity ==
    (last.op = "save" /\ ~last.ok) =>
        /\ \A id \in ProjectIds :
              load_project(storage, id, FALSE) =
                 IF saved[id] = None THEN Ok(None)
                 ELSE Ok(Some(StoredForm(Unwrap(saved[id]))))
        /\ storage = committed

\* a save fails after its deletes and some of its inserts, over a stored
\* version that has requests
C2_Witness ==
    /\ last.op = "save" /\ ~last.ok /\ last.inserting
    /\ last.had_children
    /\ saved[last.id] # None

\* C3: after a successful delete_project(id) the store holds no projects,
\* requests or environments row of id, and no headers or
\* environment_variables row whose parent row is gone.
C3_DeleteRemovesAll ==
    (last.op = "delete" /\ last.ok) =>
        /\ ~\E r \in storage.projects : r.id = last.id
        /\ ~\E r \in storage.requests : r.project_id = last.id
        /\ ~\E e \in storage.environments : e.project_id = last.id
        /\ \A h \in storage.headers : \E r \in storage.requests : r.id = h.request_id
        /\ \A v \in storage.environment_variables :
              \E e \in storage.environments :
                 e.id = v.environment_id /\ e.project_id # last.id

\* C4: delete_project succeeds on a healthy store whether or not the id is
\* stored; after it, and for every id that is not stored, load_project
\* returns Ok(None).
C4_NotFoundIsNormal ==
    /\ (last.op = "delete" /\ last.healthy) => last.ok
    /\ (last.op = "delete" /\ last.ok) =>
          load_project(storage, last.id, FALSE) = Ok(None)
    /\ \A id \in ProjectIds :
          saved[id] = None => load_project(storage, id, FALSE) = Ok(None)

\* C5: after a successful save_project(p) the rows of p.id are exactly p's
\* children: one requests row per request with its columns, in order, the
\* headers rows of each are its header pairs, one environments row per
\* environment, the variable rows of each are its variables.
C5_ChildrenReplaced ==
    (last.op = "save" /\ last.ok) =>
        LET p == last.project
            rrows == ScanRows({r \in storage.requests : r.project_id = p.id})
            erows == ScanRows({e \in storage.environments : e.project_id = p.id})
        IN /\ Len(rrows) = Len(p.requests)
           /\ \A i \in DOMAIN rrows :
                 /\ ColumnsOfRow(rrows[i]) = RequestColumns(p.requests[i])
                 /\ LET hs == ScanRows({h \in storage.headers :
                                           h.request_id = rrows[i].id})
                    IN [k \in DOMAIN hs |-> <<hs[k].name, hs[k].value>>] =
                          HeaderPairs(p.requests[i])
           /\ Len(erows) = Len(p.environments)
           /\ \A i \in DOMAIN erows :
                 /\ erows[i].name = p.environments[i].name
                 /\ {<<v.name, v.value>> : v \in {w \in storage.environment_variables :
                                                     w.environment_id = erows[i].id}}
                       = p.environments[i].variables
                 /\ Cardinality({w \in storage.environment_variables :
                                    w.environment_id = erows[i].id})
                       = Cardinality(p.environments[i].variables)
           /\ \A h \in storage.headers : \E r \in storage.requests : r.id = h.request_id

\* a save over a version of the same id that had child rows
C5_Witness ==
    /\ last.op = "save" /\ last.ok /\ last.existed /\ last.had_children
    /\ Len(last.project.requests) >= 1

\* C6: list_projects returns one entry, id and name with empty children,
\* for each project that is stored and none for the others, in ascending id.
C6_ListProjects ==
    LET l == list_projects(storage)
    IN /\ \A id \in ProjectIds :
             Cardinality({i \in DOMAIN l : l[i].id = id}) =
                IF saved[id] = None THEN 0 ELSE 1
       /\ \A i \in DOMAIN l :
             /\ l[i].id \in ProjectIds
             /\ saved[l[i].id] # None
             /\ l[i].name = Unwrap(saved[l[i].id]).name
             /\ l[i].requests = <<>> /\ l[i].environments = <<>>
       /\ \A i, j \in DOMAIN l : i < j => l[i].id < l[j].id

\* project 1 is saved after project 2 and both are listed
C6_Witness ==
    /\ last.op = "save" /\ last.ok /\ last.id = 1 /\ ~last.existed
    /\ Len(list_projects(storage)) = 2

(***************************************************************************)
(* Properties of the Router                                                *)
(***************************************************************************)
FocusedRegions ==
    {r \in {"Header", "Sidebar", "Content", "Footer"} :
        CASE r = "Header" -> header.focused
          [] r = "Sidebar" -> sidebar.focused
          [] r = "Content" -> content.focused
          [] r = "Footer" -> footer.focused}

\* C7: in every reachable state at most one of the Header, Sidebar, Content
\* and Footer regions has its focused flag set.
C7_FocusExclusive == Cardinality(FocusedRegions) <= 1

\* C8: a step taken while a modal is open, unless the modal answers Close
\* or Submit to it, changes nothing but the modal: not the mode, the focus
\* target, the four regions, the current project, the project list or the
\* store; and it does not end the loop with Quit.
C8_ModalCaptures ==
    [][(modal # None /\ answer'.type \notin {"Close", "Submit"}) =>
          /\ UNCHANGED <<mode, current_focus, previous_focus, header, sidebar, content,
                         footer, current_project, projects, project_name_buffer,
                         storage>>
          /\ running']_vars

\* an open modal has taken 'a', the key that opens a modal from the sidebar
C8_Witness ==
    /\ modal # None /\ answer.type = "Noop"
    /\ Unwrap(modal).fields["Name"] = <<"a">>

\* C9: when the modal answers Submit(r) and there is a current project, r
\* becomes the last of the current project's requests and the earlier ones
\* stay, the Sidebar lists the project's requests, the modal is closed,
\* and load_project returns the project with r, unless the store failed,
\* which leaves the store as it was and shows in the footer.
C9_SubmitAppends ==
    [][(modal # None /\ answer'.type = "Submit" /\ current_project # None) =>
          /\ modal' = None
          /\ current_project' # None
          /\ Unwrap(current_project').id = Unwrap(current_project).id
          /\ Unwrap(current_project').requests =
                Append(Unwrap(current_project).requests, answer'.request)
          /\ sidebar'.requests = Unwrap(current_project').requests
          /\ \/ load_project(storage', Unwrap(current_project').id, FALSE)
                   = Ok(current_project')
             \/ /\ storage' = storage
                /\ footer'.status = Status("Failed to save project")]_vars

\* a submitted request is the second of the current project, which the
\* store returns
C9_Witness ==
    /\ answer.type = "Submit" /\ modal = None /\ current_project # None
    /\ Len(Unwrap(current_project).requests) = 2
    /\ Unwrap(current_project).requests[2] = answer.request
    /\ load_project(storage, Unwrap(current_project).id, FALSE) = Ok(current_project)

\* the store, healthy or failing, that a step may meet
AnyStore ==
    {[HealthyEnv(1) EXCEPT !.fuel = fuel, !.load_fault = fault] :
        fuel \in {NoFault, 0, FaultFuel}, fault \in BOOLEAN}

\* C10: in every state of an open modal, Escape yields Close: the tick
\* removes the modal and leaves the current project, the project list, the
\* Sidebar's request list and the store as they are.
C10_EscapeCloses ==
    modal # None =>
        \A env \in AnyStore :
            LET r == tick(App, Key("Esc"), env)
            IN /\ r.answer.type = "Close"
               /\ r.app.modal = None
               /\ r.app.current_project = current_project
               /\ r.app.projects = projects
               /\ r.app.sidebar.requests = sidebar.requests
               /\ r.app.storage = storage

\* Escape has closed a modal that had text in its fields
C10_Witness ==
    /\ answer.type = "Close" /\ answer.typed /\ modal = None
    /\ current_project # None

\* C11: the step that closes the modal, by Close or by Submit, leaves the
\* focus target and the focused flag of every region as they were
\* immediately before the modal was opened.
C11_FocusRestored ==
    [][(modal # None /\ modal' = None) => FocusOf(App)' = Unwrap(focus_at_open)]_vars

\* every key and mouse event a state can receive, whatever the bounds on
\* typed text
AnyEvent ==
    {Key(code) : code \in KeyCodes} \cup {Char(c) : c \in CommandChars \cup TextChars}
    \cup MouseEvents

\* C12: tick returns Quit only for the key 'q' in Command mode with no
\* modal open; no other key or mouse event, in any mode, gives Quit.
C12_QuitOnlyFromCommand ==
    \A e \in AnyEvent : \A env \in {HealthyEnv(1), [HealthyEnv(1) EXCEPT !.fuel = 0]} :
        tick(App, e, env).action = "Quit" =>
            mode = "Command" /\ modal = None /\ IsChar(e, "q")

\* the loop has ended: a tick returned Quit
C12_Witness == ~running /\ mode = "Command" /\ modal = None

\* C13: whenever the mode is TabMode the focus target is Header and the
\* Header is the only region whose focused flag is set.
C13_TabModeFocusesHeader ==
    mode = "TabMode" => current_focus = "Header" /\ FocusedRegions = {"Header"}

\* the focused flag of the region a focus target names
IsFocused(a, target) ==
    CASE target = "Header" -> a.header.focused
      [] target = "Sidebar" -> a.sidebar.focused
      [] target = "Content" -> a.content.focused
      [] target = "Footer" -> a.footer.focused

\* C14: Escape in TabMode sets the mode to Normal, makes the focus target the
\* one that was current when TabMode was entered, leaves that region focused
\* and, when that region is not the Header, leaves the Header unfocused.
C14_EscapeRestoresFocus ==
    (mode = "TabMode" /\ modal = None) =>
        \A r \in {tick(App, Key("Esc"), HealthyEnv(1))} :
            /\ r.app.mode = "Normal"
            /\ r.app.current_focus = Unwrap(focus_at_entry)
            /\ IsFocused(r.app, Unwrap(focus_at_entry))
            /\ (Unwrap(focus_at_entry) # "Header" => ~r.app.header.focused)

\* C15: Enter in CreateProject mode with a non-empty name buffer and a save
\* that succeeds stores one project with the buffer as its name under the new
\* id, sets the mode to Normal and makes that project the current project.
C15_CreatedProjectIsCurrent ==
    (mode = "CreateProject" /\ modal = None /\ project_name_buffer # <<>>) =>
        \A uuid \in FreshIds : \A r \in {tick(App, Key("Enter"), HealthyEnv(uuid))} :
            save_project(storage, new_project(project_name_buffer, HealthyEnv(uuid)),
                         NoFault).ok =>
                /\ Cardinality({row \in r.app.storage.projects : row.id = uuid}) = 1
                /\ \A row \in r.app.storage.projects :
                       row.id = uuid => row.name = project_name_buffer
                /\ r.app.mode = "Normal"
                /\ r.app.current_project # None
                /\ Unwrap(r.app.current_project).id = uuid

\* C16: Escape in CreateProject mode empties the name buffer and sets the
\* mode to Normal; the store, the project list, the current project and the
\* header's tabs stay as they were.
C16_EscapeDiscardsName ==
    (mode = "CreateProject" /\ modal = None) =>
        \A env \in AnyStore :
            LET r == tick(App, Key("Esc"), env)
            IN /\ r.app.project_name_buffer = <<>>
               /\ r.app.mode = "Normal"
               /\ r.app.storage = storage
               /\ r.app.projects = projects
               /\ r.app.current_project = current_project
               /\ r.app.header.projects = header.projects
               /\ r.app.header.active_tab = header.active_tab

\* Escape meets a name buffer with text while a project is stored and current
C16_Witness ==
    /\ mode = "CreateProject" /\ modal = None /\ project_name_buffer # <<>>
    /\ projects # <<>> /\ current_project # None /\ header.projects # <<>>

(***************************************************************************)
(* The scenario of a project created, a request added through the modal,   *)
(* and the tabs switched away and back.  tick_count is the position in the *)
(* scenario: each step is the next turn of main's loop.                    *)
(***************************************************************************)
ScenarioName == <<"a">>
ScenarioMethod == <<":">>

\* the keys that create a project: Space, 'c', a name, Enter
CreateKeys == <<{Char(" ")}, {Char("c")}, {Char(c) : c \in TextChars}, {Key("Enter")}>>

\* the keys that add the request: 'a' on the Sidebar, the name, Tab, the
\* method, Tab through the other fields and Tab on the last one
AddKeys ==
    <<Char("a"), Char(ScenarioName[1]), Key("Tab"), Char(ScenarioMethod[1]),
      Key("Tab"), Key("Tab"), Key("Tab"), Key("Tab"), Key("Tab"), Key("Tab"),
      Key("Tab")>>

\* the digit key that selects the header's tab of index i
TabKey(i) == Char(CHOOSE d \in Digits : to_digit(d) = i + 1)

\* the stores the scenario starts from: none or one project, of either id
ScenarioStores ==
    UNION {{EmptyDb(foreign_keys)} \cup
           {save_project(EmptyDb(foreign_keys), [InitialProject EXCEPT !.id = id],
                         NoFault).db : id \in ProjectIds} :
              foreign_keys \in BOOLEAN}

ScenarioInit ==
    /\ \E db \in ScenarioStores : IsApp(App_new(db))
    /\ tick_count = 0
    /\ running = TRUE
    /\ answer = NoModal
    /\ focus_at_open = None
    /\ focus_at_entry = None
    /\ last = [op |-> "new"]
    /\ committed = storage
    /\ saved = [i \in ProjectIds |-> None]
    /\ nops = 0

\* create a project
ScenarioCreate ==
    /\ tick_count < Len(CreateKeys)
    /\ \E e \in CreateKeys[tick_count + 1] : \E uuid \in FreshIds :
          Run(e, HealthyEnv(uuid))

\* add the request through the modal
ScenarioAdd ==
    /\ tick_count \in Len(CreateKeys) .. Len(CreateKeys) + Len(AddKeys) - 1
    /\ Run(AddKeys[tick_count - Len(CreateKeys) + 1], HealthyEnv(1))

\* enter TabMode and select another tab than the created project's, which
\* Header::add_project has put last
ScenarioSwitchAway ==
    \/ /\ tick_count = Len(CreateKeys) + Len(AddKeys)
       /\ Run(Char(" "), HealthyEnv(1))
    \/ /\ tick_count = Len(CreateKeys) + Len(AddKeys) + 1
       /\ Run(Char("t"), HealthyEnv(1))
    \/ /\ tick_count = Len(CreateKeys) + Len(AddKeys) + 2
       /\ \E i \in 0 .. Len(header.projects) - 2 : Run(TabKey(i), HealthyEnv(1))

\* select the created project's tab
ScenarioSwitchBack ==
    /\ tick_count = Len(CreateKeys) + Len(AddKeys) + 3
    /\ Run(TabKey(Len(header.projects) - 1), HealthyEnv(1))

ScenarioLength == Len(CreateKeys) + Len(AddKeys) + 4

ScenarioNext == ScenarioCreate \/ ScenarioAdd \/ ScenarioSwitchAway \/ ScenarioSwitchBack

SpecScenario == ScenarioInit /\ [][ScenarioNext]_vars

\* C17: at the end of the scenario the Sidebar lists exactly one request,
\* with the name and the method given in the modal, whichever projects were
\* stored at the start.
C17_ScenarioListsRequest ==
    tick_count = ScenarioLength =>
        /\ Len(sidebar.requests) = 1
        /\ sidebar.requests[1].name = ScenarioName
        /\ sidebar.requests[1].method = Some(ScenarioMethod)

\* a store whose next save fails, at its first statement or at a later one
FailingStores == {[HealthyEnv(1) EXCEPT !.fuel = fuel] : fuel \in {0, FaultFuel}}

\* the ProjectUpdate the tick for e applies to the current project: the
\* AddRequest of the modal's Submit, or the update the Sidebar asks for
\* when the event reaches the regions and the Header asks for nothing
PendingUpdate(e, env) ==
    IF modal # None
    THEN {[type |-> "AddRequest", request |-> m.action.request] :
             m \in {m \in {Modal_tick(Unwrap(modal), e, env.now)} :
                       m.action.type = "Submit"}}
    ELSE {sb.action.update :
             sb \in {sb \in {Sidebar_tick(sidebar, e)} :
                        /\ e.type = "Key" /\ mode = "Normal"
                        /\ sb.action.type = "ProjectUpdate"
                        /\ Header_tick(header, e).action = Noop}}

FailureStatuses == {Status("Failed to save project"), Status("Failed to delete project")}

\* the Storage call the header's answer h leads to fails: the load_project of
\* a changed tab or the delete_project of a deleted one
TabCallFails(h, env) ==
    /\ h.action.type \in {"TabChanged", "DeleteProject"}
    /\ h.action.index < Len(projects)
    /\ IF h.action.type = "TabChanged"
       THEN ~load_project(storage, projects[h.action.index + 1].id, env.load_fault).ok
       ELSE ~delete_project(storage, projects[h.action.index + 1].id, env.fuel).ok

\* the tick for e calls the Storage and the call fails: the save of a new
\* project, the load of a changed tab, the delete of a tab, or the save of
\* a request added or deleted
StorageFails(e, env) ==
    \/ /\ current_project # None
       /\ \E u \in PendingUpdate(e, env) :
             ~save_project(storage, apply_update(Unwrap(current_project), u, env.now),
                           env.fuel).ok
    \/ /\ modal = None /\ mode = "CreateProject" /\ IsKey(e, "Enter")
       /\ project_name_buffer # <<>>
       /\ ~save_project(storage, new_project(project_name_buffer, env), env.fuel).ok
    \/ /\ modal = None /\ mode = "TabMode" /\ e.type = "Key"
       /\ ~IsKey(e, "Esc") /\ ~IsChar(e, " ")
       /\ TabCallFails(Header_handle_key_event(header, e), env)
    \/ /\ modal = None /\ e.type = "Mouse"
       /\ TabCallFails(Header_tick(header, e), env)

\* C19: a tick whose Storage call fails leaves a failure message in the
\* footer and does not end the loop.
C19_NoFailureDropped ==
    \A e \in AnyEvent : \A env \in AnyStore :
        StorageFails(e, env) =>
            \A r \in {tick(App, e, env)} :
                r.app.footer.status \in FailureStatuses /\ r.action # "Quit"

(***************************************************************************)
(* ProjectData::apply_update on its own: current_project is the project,   *)
(* last the update applied to it and the project it was applied to.        *)
(***************************************************************************)
MaxUpdates == 2

\* the ProjectUpdate values, with indices within and past the lists
Updates ==
    {[type |-> "AddRequest", request |-> RequestPool[1]],
     [type |-> "UpdateName", name |-> <<"B">>],
     [type |-> "AddEnvironment", env |-> EnvironmentPool[2]]}
    \cup {[type |-> "UpdateRequest", index |-> i, request |-> RequestPool[4]] :
             i \in 0 .. MaxRequests + 1}
    \cup {[type |-> "DeleteRequest", index |-> i] : i \in 0 .. MaxRequests + 1}
    \cup {[type |-> "UpdateEnvironment", index |-> i, env |-> EnvironmentPool[1]] :
             i \in 0 .. MaxEnvironments + 1}
    \cup {[type |-> "DeleteEnvironment", index |-> i] : i \in 0 .. MaxEnvironments + 1}

UpdateInit ==
    /\ \E project \in ProjectValues :
          IsApp([App_new(EmptyDb(FALSE)) EXCEPT !.current_project = Some(project)])
    /\ tick_count = 0
    /\ running = TRUE
    /\ answer = NoModal
    /\ focus_at_open = None
    /\ focus_at_entry = None
    /\ last = [op |-> "new"]
    /\ committed = storage
    /\ saved = [i \in ProjectIds |-> None]
    /\ nops = 0

\* a call of apply_update on the project
ApplyUpdate ==
    /\ nops < MaxUpdates
    /\ \E update \in Updates : \E now \in 0 .. MaxClock :
          /\ current_project' =
                Some(apply_update(Unwrap(current_project), update, now))
          /\ last' = [op |-> "apply_update", update |-> update, now |-> now,
                      project |-> Unwrap(current_project)]
    /\ nops' = nops + 1
    /\ UNCHANGED <<storage, header, sidebar, content, footer, current_focus,
                   previous_focus, mode, projects, project_name_buffer, modal,
                   tick_count, running, answer, focus_at_open, focus_at_entry,
                   committed, saved>>

SpecUpdate == UpdateInit /\ [][ApplyUpdate]_vars

\* the update's index is past the end of the list it is about
OutOfRange(project, update) ==
    \/ /\ update.type \in {"UpdateRequest", "DeleteRequest"}
       /\ update.index >= Len(project.requests)
    \/ /\ update.type \in {"UpdateEnvironment", "DeleteEnvironment"}
       /\ update.index >= Len(project.environments)

\* C20: apply_update with an UpdateRequest or DeleteRequest whose index is
\* not below the number of requests, or an UpdateEnvironment or
\* DeleteEnvironment whose index is not below the number of environments,
\* leaves the project's id, name, requests and environments as they were.
C20_OutOfRangeIgnored ==
    (last.op = "apply_update" /\ OutOfRange(last.project, last.update)) =>
        /\ Unwrap(current_project).id = last.project.id
        /\ Unwrap(current_project).name = last.project.name
        /\ Unwrap(current_project).requests = last.project.requests
        /\ Unwrap(current_project).environments = last.project.environments

\* a DeleteRequest past the end has met a project that has requests
C20_Witness ==
    /\ last.op = "apply_update" /\ last.update.type = "DeleteRequest"
    /\ last.project.requests # <<>>
    /\ last.update.index >= Len(last.project.requests)
    /\ Unwrap(current_project).requests = last.project.requests

\* C21: apply_update leaves the project's id and created_at as they were
\* and sets updated_at to the time of the call, whatever the update; when
\* that time is not before the project's updated_at, updated_at does not
\* decrease.
C21_UpdatedAtRefreshed ==
    last.op = "apply_update" =>
        /\ Unwrap(current_project).id = last.project.id
        /\ Unwrap(current_project).created_at = last.project.created_at
        /\ Unwrap(current_project).updated_at = last.now
        /\ (last.now >= last.project.updated_at =>
               Unwrap(current_project).updated_at >= last.project.updated_at)

\* an update with an index past the end has moved updated_at forward
C21_Witness ==
    /\ last.op = "apply_update" /\ OutOfRange(last.project, last.update)
    /\ last.project.updated_at < last.now
    /\ Unwrap(current_project).updated_at = last.now

(***************************************************************************)
(* The Content component on its own, in edit mode: content is the          *)
(* component, last the key it was given, the component before the key and  *)
(* the ContentAction it answered.  App never calls enter_edit_mode, so     *)
(* the editor is driven here through Content's own functions.              *)
(***************************************************************************)
MaxEdits == 4

EditorFields == {"Method", "Url", "Headers", "QueryParams", "PathParams", "Auth", "Body"}

EditorKeys ==
    {Key(code) : code \in {"Esc", "Tab", "BackTab", "Enter", "Backspace"}}
    \cup {Char(c) : c \in {"a", ":", "=", " "}}

\* the requests the editor is given: every field absent, every field present
EditorRequests == {RequestPool[1], RequestPool[2]}

\* the component after n Tab keys
RECURSIVE TabTimes(_, _)
TabTimes(c, n) == IF n = 0 THEN c ELSE TabTimes(Content_tick(c, Key("Tab")).self, n - 1)

\* Content::new, set_request, enter_edit_mode, and Tab to some field
EditorInit ==
    /\ \E request \in EditorRequests : \E n \in 0 .. Cardinality(EditorFields) - 1 :
          IsApp([App_new(EmptyDb(FALSE)) EXCEPT
                    !.content = TabTimes(enter_edit_mode(set_request(Content_new, request)),
                                         n)])
    /\ tick_count = 0
    /\ running = TRUE
    /\ answer = NoModal
    /\ focus_at_open = None
    /\ focus_at_entry = None
    /\ last = [op |-> "new"]
    /\ committed = storage
    /\ saved = [i \in ProjectIds |-> None]
    /\ nops = 0

\* a key event given to Content::tick
EditKey ==
    /\ nops < MaxEdits
    /\ \E e \in EditorKeys : \E r \in {Content_tick(content, e)} :
          /\ content' = r.self
          /\ last' = [op |-> "edit_key", e |-> e, content |-> content,
                      action |-> r.action]
    /\ nops' = nops + 1
    /\ UNCHANGED <<storage, header, sidebar, footer, current_focus, previous_focus,
                   mode, current_project, projects, project_name_buffer, modal,
                   tick_count, running, answer, focus_at_open, focus_at_entry,
                   committed, saved>>

SpecEditor == EditorInit /\ [][EditKey]_vars

\* the fields the component shows over n Tab keys, the first one included
RECURSIVE TabVisits(_, _)
TabVisits(c, n) ==
    IF n = 0 THEN <<>>
    ELSE <<c.edit_field>> \o TabVisits(Content_tick(c, Key("Tab")).self, n - 1)

\* C22: from each of the seven fields, seven Tab keys come back to the field
\* and show every field once on the way; Tab then Shift+Tab, and Shift+Tab
\* then Tab, come back to the field.
C22_FieldCycle ==
    (content.view_mode = "Edit" /\ content.edit_field \in EditorFields) =>
        /\ TabTimes(content, Cardinality(EditorFields)).edit_field = content.edit_field
        /\ Range(TabVisits(content, Cardinality(EditorFields))) = EditorFields
        /\ Content_tick(Content_tick(content, Key("Tab")).self, Key("BackTab")).self.edit_field
              = content.edit_field
        /\ Content_tick(Content_tick(content, Key("BackTab")).self, Key("Tab")).self.edit_field
              = content.edit_field

\* Tab has wrapped from Body to Method
C22_Witness ==
    /\ last.op = "edit_key" /\ last.e = Key("Tab")
    /\ last.content.edit_field = "Body" /\ content.edit_field = "Method"

\* the request's list a list field of the editor shows, and its separator
ListColumn(field) ==
    CASE field = "Headers" -> "headers"
      [] field = "QueryParams" -> "query_params"
      [] field = "PathParams" -> "path_params"

Separator(field) == IF field = "Headers" THEN ":" ELSE "="

ListFields == {"Headers", "QueryParams", "PathParams"}

\* the editor is on a list field with a request and a buffer
OnListField(c) ==
    c.view_mode = "Edit" /\ c.edit_field \in ListFields /\ c.request # None

\* C23: on Headers, QueryParams or PathParams, Enter with a buffer that holds
\* the field's separator puts one pair, the trimmed text before the first
\* separator and the trimmed text after it, at the end of the field's list,
\* leaves the rest of the request and the active field as they were, and
\* empties the buffer.
C23_EnterAppendsPair ==
    (OnListField(content) /\ SplitOnce(content.edit_buffer, Separator(content.edit_field)) # None)
    =>
        \A c \in {Content_tick(content, Key("Enter")).self} :
        \A split \in {Unwrap(SplitOnce(content.edit_buffer, Separator(content.edit_field)))} :
            /\ c.request =
                 Some([Unwrap(content.request) EXCEPT
                         ![ListColumn(content.edit_field)] =
                             Some(Append(unwrap_or_default(@),
                                         <<Trim(split[1]), Trim(split[2])>>))])
            /\ c.edit_buffer = <<>>
            /\ c.edit_field = content.edit_field
            /\ c.view_mode = "Edit"

\* Enter has taken a buffer with a space around the separator and the list
\* has one pair more
C23_Witness ==
    /\ last.op = "edit_key" /\ last.e = Key("Enter") /\ OnListField(last.content)
    /\ SplitOnce(last.content.edit_buffer, Separator(last.content.edit_field)) # None
    /\ " " \in Range(last.content.edit_buffer)
    /\ content.edit_buffer = <<>>
    /\ Len(unwrap_or_default(Unwrap(content.request)[ListColumn(content.edit_field)]))
         = Len(unwrap_or_default(
                   Unwrap(last.content.request)[ListColumn(content.edit_field)])) + 1

\* C24: on Headers, QueryParams or PathParams, Enter with a buffer that does
\* not hold the field's separator leaves the request, the buffer and the
\* active field as they were, and answers a content update, not an error.
C24_EnterWithoutSeparator ==
    (OnListField(content) /\ SplitOnce(content.edit_buffer, Separator(content.edit_field)) = None)
    =>
        \A r \in {Content_tick(content, Key("Enter"))} :
            r.self = content /\ r.action = ContentUpdated

\* Enter has met text without the separator, and the text is still there
C24_Witness ==
    /\ last.op = "edit_key" /\ last.e = Key("Enter") /\ OnListField(last.content)
    /\ last.content.edit_buffer # <<>>
    /\ SplitOnce(last.content.edit_buffer, Separator(last.content.edit_field)) = None
    /\ content = last.content

ScalarFields == {"Method", "Url", "Body"}

\* the text of a scalar field of a request, empty when the field is absent
ScalarValue(request, field) ==
    CASE field = "Method" -> unwrap_or_default(request.method)
      [] field = "Url" -> unwrap_or_default(request.url)
      [] field = "Body" -> unwrap_or_default(request.body)

\* C25: with Method, Url or Body active, Tab and Shift+Tab leave the buffer
\* as the request's value of that field.
C25_TabCommitsScalar ==
    (content.view_mode = "Edit" /\ content.edit_field \in ScalarFields
     /\ content.request # None) =>
        \A key \in {Key("Tab"), Key("BackTab")} :
            ScalarValue(Unwrap(Content_tick(content, key).self.request),
                        content.edit_field) = content.edit_buffer

(***************************************************************************)
(* The App with the editor in use.  The Sidebar's "edit requested" signal  *)
(* and the call of Content::enter_edit_mode that answers it are not in the *)
(* sources; edit_requested is that transition as the specification gives   *)
(* it: the selected request is opened in the editor.                       *)
(***************************************************************************)
MaxEditTicks == 4

edit_requested(app) ==
    [app EXCEPT !.content =
        enter_edit_mode(set_request(@, app.sidebar.requests[
                                           Unwrap(app.sidebar.selected_index) + 1]))]

\* the Sidebar signals "edit requested" for the selected request
EditRequested ==
    /\ running /\ tick_count < MaxEditTicks
    /\ modal = None /\ sidebar.selected_index # None /\ content.view_mode = "View"
    /\ BecomesApp(edit_requested(App))
    /\ tick_count' = tick_count + 1
    /\ UNCHANGED <<running, answer, focus_at_open, focus_at_entry, storevars>>

\* a key event while the editor may be in use; 'l' moves the focus
EditTick ==
    /\ tick_count < MaxEditTicks
    /\ \E e \in EditorKeys \cup {Char("l")} : Run(e, HealthyEnv(1))

EditNext == EditRequested \/ EditTick

SpecEdit == Init /\ [][EditNext]_vars

\* the value of a field of the editor in a request
FieldValue(request, field) ==
    IF field \in ScalarFields THEN ScalarValue(request, field)
    ELSE unwrap_or_default(request[ListColumn(field)])

\* a list of requests holds one with the name of request and its value of field
HoldsCommitted(requests, request, field) ==
    \E i \in DOMAIN requests :
        /\ requests[i].name = request.name
        /\ FieldValue(requests[i], field) = FieldValue(request, field)

\* C26: an Enter that commits a field of the editor (the Content answers
\* RequestUpdated) is persisted in the same tick: afterwards load_project of
\* the current project holds the request with the committed value, and so
\* does the Sidebar's list.
C26_CommitPersisted ==
    (/\ modal = None /\ mode = "Normal" /\ current_project # None
     /\ content.view_mode = "Edit" /\ content.request # None
     /\ content.edit_field \in ScalarFields \cup ListFields
     /\ Content_tick(content, Key("Enter")).action.type = "RequestUpdated")
    =>
        \A r \in {tick(App, Key("Enter"), HealthyEnv(1))} :
        \A edited \in {Unwrap(Content_tick(content, Key("Enter")).self.request)} :
        \A l \in {load_project(r.app.storage, Unwrap(current_project).id, FALSE)} :
            /\ l.ok /\ l.val # None
            /\ HoldsCommitted(Unwrap(l.val).requests, edited, content.edit_field)
            /\ HoldsCommitted(r.app.sidebar.requests, edited, content.edit_field)

(***************************************************************************)
(* Enter on the Auth field, of the modal and of the editor: modal and      *)
(* content hold the text typed into the field, last the Enter given.       *)
(***************************************************************************)
\* words with single spaces between them
RECURSIVE Join(_)
Join(words) ==
    IF words = <<>> THEN <<>>
    ELSE IF Len(words) = 1 THEN words[1]
    ELSE words[1] \o <<" ">> \o Join(Tail(words))

\* texts of the Auth field: the three forms, with too few words, with a
\* wrong last word, an unknown keyword, nothing, and spaces around
AuthBuffers ==
    {Join(words) : words \in
        {<<sBasic, <<"u">>, <<"p">>>>, <<sBasic, <<"u">>>>, <<sBasic>>,
         <<sBearer, <<"t">>>>, <<sBearer>>, <<sBearer, <<"t">>, <<"t">>>>,
         <<sApikey, <<"k">>, <<"v">>, sHeader>>, <<sApikey, <<"k">>, <<"v">>, sQuery>>,
         <<sApikey, <<"k">>, <<"v">>, <<"x">>>>, <<sApikey, <<"k">>, <<"v">>>>,
         <<<<"x">>, <<"u">>, <<"p">>>>, <<>>}}
    \cup {<<" ">> \o Join(<<sBearer, <<>>, <<"t">>>>) \o <<" ">>}

AuthValues == {AuthNone, Basic(<<"u">>, <<"p">>), Bearer(<<"t">>), ApiKey(<<"k">>, <<"v">>, TRUE)}

AuthInit ==
    /\ \E buffer \in AuthBuffers : \E auth \in AuthValues :
          IsApp([App_new(EmptyDb(FALSE)) EXCEPT
                    !.modal = Some([Modal_new EXCEPT !.current_field = "Auth",
                                                     !.fields["Auth"] = buffer,
                                                     !.auth_type = auth]),
                    !.content =
                        [enter_edit_mode(
                             set_request(Content_new,
                                         [RequestPool[2] EXCEPT !.auth = Some(auth)]))
                         EXCEPT !.edit_field = "Auth", !.edit_buffer = buffer]])
    /\ tick_count = 0
    /\ running = TRUE
    /\ answer = NoModal
    /\ focus_at_open = None
    /\ focus_at_entry = None
    /\ last = [op |-> "new"]
    /\ committed = storage
    /\ saved = [i \in ProjectIds |-> None]
    /\ nops = 0

\* Enter given to the modal on its Auth field
ModalAuthEnter ==
    /\ last.op = "new"
    /\ modal' = Some(Modal_handle_key_event(Unwrap(modal), Key("Enter"), MaxClock).self)
    /\ last' = [op |-> "auth_enter", target |-> "modal",
                buffer |-> Unwrap(modal).fields["Auth"]]
    /\ nops' = nops + 1
    /\ UNCHANGED <<storage, header, sidebar, content, footer, current_focus,
                   previous_focus, mode, current_project, projects,
                   project_name_buffer, tick_count, running, answer, focus_at_open,
                   focus_at_entry, committed, saved>>

\* Enter given to the editor on its Auth field
ContentAuthEnter ==
    /\ last.op = "new"
    /\ content' = Content_tick(content, Key("Enter")).self
    /\ last' = [op |-> "auth_enter", target |-> "content", buffer |-> content.edit_buffer]
    /\ nops' = nops + 1
    /\ UNCHANGED <<storage, header, sidebar, footer, current_focus, previous_focus,
                   mode, current_project, projects, project_name_buffer, modal,
                   tick_count, running, answer, focus_at_open, focus_at_entry,
                   committed, saved>>

AuthNext == ModalAuthEnter \/ ContentAuthEnter

SpecAuth == AuthInit /\ [][AuthNext]_vars

\* the Auth the grammar gives a text: basic u p, bearer t, apikey k v
\* header, apikey k v query, and None for every other text
ExpectedAuth(buffer) ==
    LET parts == SplitWhitespace(buffer)
    IN IF Len(parts) = 3 /\ parts[1] = sBasic THEN Basic(parts[2], parts[3])
       ELSE IF Len(parts) = 2 /\ parts[1] = sBearer THEN Bearer(parts[2])
       ELSE IF Len(parts) = 4 /\ parts[1] = sApikey /\ parts[4] \in {sHeader, sQuery}
       THEN ApiKey(parts[2], parts[3], parts[4] = sHeader)
       ELSE AuthNone

\* the Auth of a request, None when the request has none
AuthOf(request) == IF request.auth = None THEN AuthNone ELSE Unwrap(request.auth)

\* C27: after Enter on the Auth field the Auth is the one the grammar gives
\* the text of the field, None for every text outside the grammar, whatever
\* the Auth was before.
C27_AuthFromBuffer ==
    last.op = "auth_enter" =>
        IF last.target = "modal"
        THEN Unwrap(modal).auth_type = ExpectedAuth(last.buffer)
        ELSE AuthOf(Unwrap(content.request)) = ExpectedAuth(last.buffer)

\* C28: in edit mode Escape with a field active deactivates the field and
\* empties the buffer, staying in edit mode with the request unchanged;
\* Escape with no field active leaves edit mode; so a second Escape always
\* has left edit mode.
C28_EscapeTwoLevels ==
    content.view_mode = "Edit" =>
        \A r \in {Content_tick(content, Key("Esc"))} :
            /\ content.edit_field # "None" =>
                   r.self = [content EXCEPT !.edit_field = "None", !.edit_buffer = <<>>]
            /\ content.edit_field = "None" =>
                   r.self = [content EXCEPT !.view_mode = "View"]
            /\ r.self.view_mode = "Edit" =>
                   Content_tick(r.self, Key("Esc")).self.view_mode = "View"

C28_Witness ==
    /\ last.op = "edit_key" /\ last.e = Key("Esc")
    /\ last.content.view_mode = "Edit"
    /\ last.content.edit_field # "None" /\ last.content.edit_buffer # <<>>
    /\ content = [last.content EXCEPT !.edit_field = "None", !.edit_buffer = <<>>]

\* the requests of project id as the store db holds them, <<>> when the
\* store has no such project
StoredRequests(db, id) ==
    LET l == load_project(db, id, FALSE)
    IN IF l.ok /\ l.val # None THEN Unwrap(l.val).requests ELSE <<>>

\* the Sidebar alone is focused, in Normal mode, with a request selected
SidebarHoldsSelection ==
    /\ modal = None /\ mode = "Normal" /\ current_project # None
    /\ current_focus = "Sidebar" /\ sidebar.focused /\ ~header.focused
    /\ sidebar.selected_index # None

TabSwitchKeys ==
    {Char("h"), Char("l"), Key("Left"), Key("Right")} \cup {Char(c) : c \in Digits}

\* C30: with no project, every key that switches tabs, in TabMode or on the
\* focused Header, and handle_tab_change with any index change nothing: no
\* current project appears, the active tab stays 0 and no failure is shown.
C30_NoProjectNoSwitch ==
    (projects = <<>> /\ modal = None) =>
        /\ header.active_tab = 0 /\ current_project = None
        /\ \A index \in 0..MaxTabs : \A env \in Envs :
               handle_tab_change(App, index, env) = App
        /\ (mode = "TabMode" \/ (mode = "Normal" /\ header.focused)) =>
               \A e \in TabSwitchKeys : \A env \in Envs :
               \A r \in {tick(App, e, env)} :
                   /\ mode = "TabMode" => r.app = App
                   /\ r.app.current_project = None
                   /\ r.app.projects = <<>>
                   /\ r.app.header.projects = header.projects
                   /\ r.app.header.active_tab = 0
                   /\ r.app.sidebar.requests = sidebar.requests
                   /\ r.app.content.request = content.request
                   /\ r.app.footer.status = footer.status
                   /\ r.app.storage = storage
                   /\ r.action # "Quit"

C30_Witness ==
    /\ projects = <<>> /\ header.projects = <<>> /\ modal = None
    /\ mode = "TabMode" /\ header.focused /\ focus_at_entry # None
    /\ tick_count > 1
    /\ header.active_tab = 0 /\ current_project = None

\* C31: with no project, SPACE then t typed from Normal mode start project
\* creation: after the two keys the mode is CreateProject.
C31_SpaceTCreates ==
    (modal = None /\ mode = "Normal" /\ projects = <<>>) =>
        \A r \in {tick(tick(App, Char(" "), HealthyEnv(1)).app, Char("t"), HealthyEnv(1))} :
            r.app.mode = "CreateProject"

\* the region of App a that a focus target names
RegionOf(a, target) ==
    CASE target = "Header" -> a.header
      [] target = "Sidebar" -> a.sidebar
      [] target = "Content" -> a.content
      [] target = "Footer" -> a.footer

FocusTargets == {"Header", "Sidebar", "Content", "Footer"}

\* the key events App::tick hands to the four regions: Normal mode, no
\* modal, and a key other than ' ', 'h' and 'l'
ForwardedKeys ==
    IF modal = None /\ mode = "Normal"
    THEN ({Key(code) : code \in KeyCodes} \cup {Char(c) : c \in CommandChars \cup TextChars})
             \ {Char(" "), Char("h"), Char("l")}
    ELSE {}

\* the tick of the region a focus target names
RegionTick(a, target, e) ==
    CASE target = "Header" -> Header_tick(a.header, e)
      [] target = "Sidebar" -> Sidebar_tick(a.sidebar, e)
      [] target = "Content" -> Content_tick(a.content, e)
      [] target = "Footer" -> Footer_tick(a.footer, e)

\* C32: a key the Router does not consume itself is ignored by every region
\* but the one current_focus names: such a region keeps its state and
\* answers Noop, so at most the focus target acts on the key.
C32_OnlyFocusTargetActs ==
    \A e \in ForwardedKeys : \A target \in FocusTargets \ {current_focus} :
        \A r \in {RegionTick(App, target, e)} :
            r.self = RegionOf(App, target) /\ r.action = Noop

\* C33: a save_project(p) or delete_project(p.id), whatever came before,
\* leaves load_project(x) as it was for every project id x other than p.id.
C33_OtherProjectsUntouched ==
    [][last'.op \in {"save", "delete"} =>
          \A x \in ProjectIds \ {last'.id} :
              load_project(storage', x, FALSE) = load_project(storage, x, FALSE)]_vars

\* a call on one project succeeded while the store held the other with
\* requests or environments of its own
C33_Witness ==
    /\ last.op \in {"save", "delete"} /\ last.ok
    /\ (last.op = "save" => last.existed /\ last.had_children)
    /\ (last.op = "delete" => last.existed)
    /\ \E x \in ProjectIds \ {last.id} : Stored(storage, x) /\ HasChildren(storage, x)

\* C34: with no modal open the Sidebar lists the requests of the current
\* project, and nothing when there is no current project.
C34_SidebarListsCurrentProject ==
    (modal = None /\ tick_count > 0) =>
        sidebar.requests = IF current_project = None THEN <<>>
                           ELSE Unwrap(current_project).requests

\* the ids of a list of projects or of tabs, in order
IdsOf(list) == [i \in DOMAIN list |-> list[i].id]

\* C35: the Header's tabs and the Router's projects hold the same ids in
\* the same order, and in TabMode the digit of tab i makes the project
\* shown in tab i the current project.
C35_TabsMatchProjects ==
    modal = None =>
        /\ IdsOf(header.projects) = IdsOf(projects)
        /\ mode = "TabMode" =>
               \A i \in DOMAIN header.projects :
               \A r \in {tick(App, TabKey(i - 1), HealthyEnv(1))} :
                   /\ r.app.current_project # None
                   /\ Unwrap(r.app.current_project).id = header.projects[i].id

\* C36: the Sidebar's selection is None exactly when its list is empty and
\* otherwise an index within the list.
C36_SelectionWithinList ==
    /\ sidebar.selected_index = None <=> sidebar.requests = <<>>
    /\ sidebar.selected_index # None =>
           Unwrap(sidebar.selected_index) < Len(sidebar.requests)

\* the last of two requests is selected
C36_Witness ==
    /\ modal = None /\ tick_count > 0
    /\ Len(sidebar.requests) = 2
    /\ sidebar.selected_index = Some(1)

\* C37: outside CreateProject mode the project-name buffer is empty.
C37_BufferEmptyOutsideCreate ==
    mode # "CreateProject" => project_name_buffer = <<>>

\* the keys that make a field active or leave it active without typing
FieldKeys == {Key("Enter"), Key("Tab"), Key("BackTab")}

\* a scalar field is active and nothing was typed since it became or
\* stayed active
ScalarFieldUntyped ==
    /\ content.view_mode = "Edit" /\ content.request # None
    /\ content.edit_field \in ScalarFields
    /\ \/ last.op = "new"
       \/ last.op = "edit_key" /\ last.e \in FieldKeys

\* C38: while a scalar field is active and nothing was typed since it became
\* or stayed active, the edit buffer is the field's value, so a second Enter
\* in a row leaves the request as the first one made it.
C38_BufferHoldsFieldValue ==
    ScalarFieldUntyped =>
        /\ content.edit_buffer = ScalarValue(Unwrap(content.request), content.edit_field)
        /\ (last.op = "edit_key" /\ last.e = Key("Enter")
            /\ last.content.edit_field \in ScalarFields) =>
               Content_tick(content, Key("Enter")).self.request = content.request

\* C39: the RequestUpdated a successful append on Headers, QueryParams or
\* PathParams returns carries the request with the new pair, the one the
\* editor holds after the step.
C39_ActionCarriesNewPair ==
    (OnListField(content)
     /\ SplitOnce(content.edit_buffer, Separator(content.edit_field)) # None) =>
        \A r \in {Content_tick(content, Key("Enter"))} :
            /\ r.action.type = "RequestUpdated"
            /\ Some(r.action.request) = r.self.request

\* printable characters typed into a field, with those App::tick matches in
\* Normal mode
TypedChars == {"a", ":", "=", " ", "h", "l"}

\* C40: while the editor has an active field, every printable character that
\* reaches the Router is appended to the edit buffer and changes neither the
\* mode nor the focus target.
C40_CharsReachBuffer ==
    (modal = None /\ mode = "Normal"
     /\ content.view_mode = "Edit" /\ content.edit_field # "None") =>
        \A ch \in TypedChars : \A r \in {tick(App, Char(ch), HealthyEnv(1))} :
            /\ r.app.content.edit_buffer = Append(content.edit_buffer, ch)
            /\ r.app.mode = mode
            /\ r.app.current_focus = current_focus

====
